---- MODULE Spec2Model ----
(***************************************************************************)
(* A model of the movie-performance-predictor scraping core:               *)
(*   - the deduplicating merge of RottenTomatoesSeleniumScraper            *)
(*     .scrape_reviews (src/scrapers/rotten_tomatoes_selenium.py),         *)
(*   - the content fingerprint hash(text) and the source_id built from it, *)
(*   - Movie.get_best_rating / get_rating_metadata                         *)
(*     (src/database/models.py),                                           *)
(*   - identifier resolution, search_movie, of both scrapers.              *)
(* Each part has its own specification over the shared variables; the      *)
(* variables a specification does not use keep their initial value.        *)
(***************************************************************************)
EXTENDS Integers, Sequences, FiniteSets, TLC

VARIABLES
    \* ---- RottenTomatoesSeleniumScraper.scrape_reviews ----
    hash_seed,      \* the interpreter's per-process string-hash salt
    pc_sr,          \* position in scrape_reviews: "loop", "merge", "done"
    endpoint_key,   \* the endpoint of the current iteration of the outer loop
    seen_texts,     \* the dict text_hash -> (review, priority), in insertion order
    all_reviews,    \* the returned list
    pooled,         \* history: every review the merge loop has processed, in order
    \* ---- the reviews table across process runs ----
    runs,           \* the number of interpreter processes started so far
    stored,         \* history: the reviews parsed so far, by any run
    \* ---- Movie (src/database/models.py) ----
    tmdb_rating,    \* Float columns, in thousandths of a rating point, or NoValue
    tmdb_vote_count,
    imdb_rating,
    imdb_vote_count,
    scraped_at,     \* DateTime column, in clock ticks, or NoValue
    now,            \* datetime.utcnow() as read by the latest call, in clock ticks
    ret,            \* the latest call of a Movie method and the value it returned
    first_best,     \* history: <<v>> once the first get_best_rating call returned v
    \* ---- search_movie of both scrapers ----
    source,         \* the scraper the search_movie of which is running: "rt", "imdb"
    pc_search,      \* position in search_movie: the stage to run, "returned", "raised"
    query_title,    \* the arguments of the call
    query_year,
    driver,         \* self.driver of the Rotten Tomatoes scraper: "none" or "open"
    FUZZY_AVAILABLE, \* whether the import of fuzzywuzzy succeeded
    fetched,        \* what the latest search request of the call met
    trail,          \* history: the stages the call has attempted, each with the
                    \* year its search was made with and its outcome
    result,         \* the value search_movie returns
    \* ---- _parse_review / _parse_review_card_selenium on one container ----
    extractor,      \* the scraper the parser of which ran: "imdb", "rt"
    container,      \* the body text the container holds, a string of characters
    parsed,         \* what the parser returned: <<>> for None, <<dict>> for a review
    \* ---- scrape_reviews of both scrapers, with its limit ----
    max_reviews,    \* the argument max_reviews of the call
    batch_sizes,    \* history: the length of the list each _scrape_endpoint call returned
    pc_isr,         \* position in IMDbScraper.scrape_reviews: "idle", "loop", "done"
    imdb_reviews,   \* the list "reviews" of IMDbScraper.scrape_reviews
    pagination_key, \* the key of the next page, or NoKey; the keys the server
                    \* hands out one after the other are told apart as two
    fetches,        \* the number of pages the call has requested, counted up
                    \* to MaxFetches
    \* ---- the browser session, the outbound calls and their waits ----
    rt_driver,      \* self.driver of the Rotten Tomatoes scraper: "None", or a
                    \* WebDriver whose browser session is "open" or "broken"
    pc_smr,         \* position in scrape_movie_reviews: "s0", "s1", "fallback", "scrape",
                    \* "finally"; "returned", "raised" once it has finished and
                    \* until another operation of the scraper runs; else "idle"
    with_year,      \* whether the call was made with a year
    endpoints_left, \* the endpoints scrape_reviews has still to go through
    rt_net,         \* the outbound calls of the Rotten Tomatoes scraper and the
                    \* waits since the latest one
    imdb_net,       \* the same for the IMDb scraper
    last_use,       \* history: what _init_driver did for the latest operation
    last_fetch,     \* history: the attempts of the latest fetch and its result
    \* ---- the score of a result title for a search title ----
    search_title,   \* the title searched for, a string of characters
    result_title,   \* the title of a search result
    scorer,         \* the scraper that scored the pair: "rt", "imdb", or "none"
    title_score,    \* the score it gave, a ratio
    \* ---- _scroll_to_load_reviews and the lookup of the cards after it ----
    target_count,   \* the argument of the call, the max_reviews of _scrape_endpoint
    page_height,    \* document.body.scrollHeight of the page in the browser
    page_count,     \* the number of review-card elements the page holds
    last_height,    \* the local variables of the loop
    scroll_attempts,
    pc_scroll,      \* "idle", "loop", "ended", "raised", "read"
    scrolls,        \* history: the number of iterations the loop has made
    last_scroll,    \* history: what the latest iteration saw
    review_cards,   \* the number of cards _scrape_endpoint found, or NoValue
    \* ---- _parse_relative_timestamp on one token ----
    token_amount,   \* the number and the unit the site wrote the token from
    token_unit,
    date_str,       \* the argument of the call, a string of characters
    clock,          \* what datetime.now() reads, in seconds
    timestamp,      \* <<>> before the call, <<v>> once it returned v
    \* ---- the engagement counters of one container ----
    voting,         \* what the container holds about votes
    counted_by,     \* the scraper the parser of which ran: "imdb", "rt", or "none"
    counters,       \* <<>> before the call, <<dict>> with the two counters after
    \* ---- TMDBDataLoader.load_into_database, run after run ----
    csv_rows,       \* self.df: what parse_movie gives for each row of the file
    movies,         \* the committed rows of the movies table, in insertion order
    session_new,    \* the Movies the session has added and not yet committed
    row_idx,        \* idx of the row the loop is at
    pc_load,        \* "idle", or "rows" while a run is in its loop
    load_runs,      \* history: the runs started so far
    cut_short,      \* history: the runs that were cut short
    loaded_once     \* history: <<table>> once the first run has finished

mergeVars == <<hash_seed, pc_sr, endpoint_key, seen_texts, all_reviews, pooled>>
runVars == <<runs, stored>>
movieVars == <<tmdb_rating, tmdb_vote_count, imdb_rating, imdb_vote_count, scraped_at>>
ratingVars == <<movieVars, now, ret, first_best>>

resolveVars == <<source, pc_search, query_title, query_year, driver, FUZZY_AVAILABLE,
                 fetched, trail, result>>

parseVars == <<extractor, container, parsed>>
scrapeVars == <<max_reviews, batch_sizes, pc_isr, imdb_reviews, pagination_key, fetches>>

sessionVars == <<rt_driver, pc_smr, with_year, endpoints_left, rt_net, imdb_net,
                 last_use, last_fetch>>

\* the variables of the parts below scrape_reviews, below the parsers, below
\* the identifier resolution
scoreVars == <<search_title, result_title, scorer, title_score>>

scrollVars == <<target_count, page_height, page_count, last_height, scroll_attempts,
                pc_scroll, scrolls, last_scroll, review_cards>>
stampVars == <<token_amount, token_unit, date_str, clock, timestamp>>
counterVars == <<voting, counted_by, counters>>
loadVars == <<csv_rows, movies, session_new, row_idx, pc_load, load_runs, cut_short,
              loaded_once>>
afterStampVars == <<counterVars, loadVars>>
afterScrollVars == <<stampVars, afterStampVars>>
afterScoreVars == <<scrollVars, afterScrollVars>>
afterSessionVars == <<scoreVars, afterScoreVars>>
afterScrapeVars == <<sessionVars, afterSessionVars>>
afterParseVars == <<scrapeVars, afterScrapeVars>>
laterVars == <<parseVars, afterParseVars>>

vars == <<mergeVars, runVars, ratingVars, resolveVars, laterVars>>
beforeScrollVars == <<mergeVars, runVars, ratingVars, resolveVars, parseVars, scrapeVars,
                      sessionVars, scoreVars>>

\* None in a numeric column or variable (no rating, no vote count, no date)
NoValue == -1

\* no endpoint yet
NoEndpoint == "None"

\* None as a year: no year in the query, no year shown with a result
NoYear == 0

\* None as an identifier
NoId == "None"

\* no exception was raised
NoExc == "none"

\* nothing fetched yet
NoWorld == [fail |-> "none", layout |-> "none", results |-> <<>>]

(***************************************************************************)
(* Bounds of the model                                                     *)
(***************************************************************************)
\* the number of reviews the endpoints deliver in one scrape_reviews call
MaxPooled == 3
\* the number of interpreter processes that are started
MaxRuns == 2
\* the number of reviews the runs parse in all
MaxStored == 2
\* the span of time the rating calls are spread over, in days
MaxDays == 8
\* the clock ticks of the model in one day
TicksPerDay == 2
\* the number of results a search page shows
MaxResults == 2
\* the number of letters of a review text
MaxLetters == 21
\* the largest limit max_reviews a call is made with
MaxLimit == 2
\* the number of review cards or containers a page holds
MaxCards == 2
\* the number of endpoints one scrape_reviews call goes through
MaxEndpoints == 2
\* the number of pages one scrape_reviews call requests
MaxFetches == 3

\* the outbound calls counted per scraper (the count stops there)
MaxCalls == 2

\* the numerals 1..MaxNumeral end the titles that are scored
MaxNumeral == 3
MaxHeight == 2
MaxAmount == 12
MaxVotes == 2
MaxRows == 3
MaxLoads == 3

(***************************************************************************)
(* The pages' content: review cards (text, author) the site may serve      *)
(***************************************************************************)
Texts == {"t1", "t2"}
Cards == { [text |-> "t1", author |-> "ann"],
           [text |-> "t1", author |-> "bob"],
           [text |-> "t2", author |-> "ann"] }

\* PYTHONHASHSEED: chosen at random when the interpreter starts
HashSeeds == {0, 1}

TextCode(text) == IF text = "t1" THEN 1 ELSE 2

\* hash(text) of a str: a function of the text and of the process's salt,
\* injective on the texts of the model for each salt (no collisions among them)
Hash(seed, text) == (TextCode(text) + 3 * seed) % 7

ENDPOINTS == {"top_critics", "all_critics", "verified_audience", "all_audience"}

PRIORITIES == [ top_critic |-> 4, critic |-> 3, verified_audience |-> 2, audience |-> 1 ]

\* a bug a maintainer could make: the table is looked up with a key it does not
\* hold (the endpoint key 'top_critics' for 'top_critic'), so every lookup
\* falls back to the default
Priority_KeyMismatch(review_type) == 0

\* self.PRIORITIES.get(review_type, 0)
Priority(review_type) ==
    IF review_type \in DOMAIN PRIORITIES THEN PRIORITIES[review_type] ELSE 0

\* _parse_review_card_selenium: the review type from the endpoint identifier
\* ('critic' in endpoint_type, 'top' in endpoint_type, 'verified' in endpoint_type)
ReviewType(endpoint_type) ==
    LET is_critic   == endpoint_type \in {"top_critics", "all_critics"}
        is_top      == endpoint_type \in {"top_critics"}
        is_verified == endpoint_type \in {"verified_audience"}
    IN  IF is_critic
        THEN (IF is_top THEN "top_critic" ELSE "critic")
        ELSE (IF is_verified THEN "verified_audience" ELSE "audience")

\* source_id = f"rt_{endpoint_type}_{hash(text)}"
SourceId(seed, endpoint_type, text) == <<"rt", endpoint_type, Hash(seed, text)>>

\* the dict _parse_review_card_selenium returns for a card of an endpoint's page
ParseCard(seed, card, endpoint_type) ==
    [ source_id   |-> SourceId(seed, endpoint_type, card.text),
      text        |-> card.text,
      author      |-> card.author,
      review_type |-> ReviewType(endpoint_type) ]

(***************************************************************************)
(* The dedup merge of scrape_reviews                                       *)
(***************************************************************************)
\* the position of text_hash among the dict's keys, 0 when it is not a key
KeyIndex(seen, text_hash) ==
    IF \E i \in 1..Len(seen) : seen[i].hash = text_hash
    THEN CHOOSE i \in 1..Len(seen) : seen[i].hash = text_hash
    ELSE 0

\* a bug a maintainer could make: the comparison turned round
ShouldReplace_Lower(priority, existing_priority) == priority < existing_priority

\* a bug a maintainer could make: a duplicate of equal priority replaces too
ShouldReplace_OrEqual(priority, existing_priority) == priority >= existing_priority

\* "if priority > existing_priority"
ShouldReplace(priority, existing_priority) == priority > existing_priority

\* review.get('review_type', 'audience')
ReviewTypeOf(review) ==
    IF "review_type" \in DOMAIN review THEN review.review_type ELSE "audience"

\* a bug a maintainer could make: on a duplicate that does not win, the stored
\* entry is dropped instead of the incoming one
MergeReview_DropStored(seen, review, seed) ==
    LET text_hash == Hash(seed, review.text)
        priority  == Priority(ReviewTypeOf(review))
        i         == KeyIndex(seen, text_hash)
        entry     == [hash |-> text_hash, review |-> review, priority |-> priority]
    IN  IF i # 0
        THEN IF ShouldReplace(priority, seen[i].priority)
             THEN [seen EXCEPT ![i] = entry]
             ELSE SelectSeq(seen, LAMBDA e : e.hash # text_hash)
        ELSE Append(seen, entry)

\* one iteration of "for review in reviews" (the body of the inner loop)
MergeReview(seen, review, seed) ==
    LET text_hash == Hash(seed, review.text)
        priority  == Priority(ReviewTypeOf(review))
        i         == KeyIndex(seen, text_hash)
        entry     == [hash |-> text_hash, review |-> review, priority |-> priority]
    IN  IF i # 0
        THEN IF ShouldReplace(priority, seen[i].priority)
             THEN [seen EXCEPT ![i] = entry]
             ELSE seen
        ELSE Append(seen, entry)

\* the inner loop over a whole list of reviews
RECURSIVE MergeBatch(_, _, _)
MergeBatch(seen, reviews, seed) ==
    IF reviews = <<>> THEN seen
    ELSE MergeBatch(MergeReview(seen, Head(reviews), seed), Tail(reviews), seed)

\* all_reviews = [review for review, _ in seen_texts.values()]
ExtractReviews(seen) == [i \in 1..Len(seen) |-> seen[i].review]

Range(s) == { s[i] : i \in 1..Len(s) }

\* the parts of the state a specification does not use
MergeIdle ==
    /\ pc_sr = "idle"
    /\ endpoint_key = NoEndpoint
    /\ seen_texts = <<>>
    /\ all_reviews = <<>>
    /\ pooled = <<>>

RunsIdle ==
    /\ runs = 1
    /\ stored = {}

RatingIdle ==
    /\ tmdb_rating = NoValue
    /\ tmdb_vote_count = NoValue
    /\ imdb_rating = NoValue
    /\ imdb_vote_count = NoValue
    /\ scraped_at = NoValue
    /\ now = 0
    /\ ret = [fn |-> "none"]
    /\ first_best = <<>>

ResolveIdle ==
    /\ source = "none"
    /\ pc_search = "idle"
    /\ query_title = "The Matrix"
    /\ query_year = NoYear
    /\ driver = "none"
    /\ FUZZY_AVAILABLE = TRUE
    /\ fetched = NoWorld
    /\ trail = <<>>
    /\ result = NoId

ParseIdle ==
    /\ extractor = "none"
    /\ container = <<>>
    /\ parsed = <<>>

\* no pagination key (None)
NoKey == "None"

ScrapeIdle ==
    /\ max_reviews = 0
    /\ batch_sizes = <<>>
    /\ pc_isr = "idle"
    /\ imdb_reviews = <<>>
    /\ pagination_key = NoKey
    /\ fetches = 0

\* no outbound call made yet, no wait either
NoCalls == [calls |-> 0, waits |-> {}, gap |-> {}]

\* no operation has needed the driver yet
NoUse == [op |-> "none", before |-> "None", launches |-> 0, after |-> "None", raised |-> FALSE]

\* no fetch made yet
NoFetch == [op |-> "none", outcomes |-> <<>>, backoffs |-> 0, result |-> "none"]

SessionIdle ==
    /\ rt_driver = "None"
    /\ pc_smr = "idle"
    /\ with_year = FALSE
    /\ endpoints_left = 0
    /\ rt_net = NoCalls
    /\ imdb_net = NoCalls
    /\ last_use = NoUse
    /\ last_fetch = NoFetch

ScoreIdle ==
    /\ search_title = <<>>
    /\ result_title = <<>>
    /\ scorer = "none"
    /\ title_score = [num |-> 0, den |-> 1]

ScrollIdle ==
    /\ target_count = 0
    /\ page_height = 0
    /\ page_count = 0
    /\ last_height = NoValue
    /\ scroll_attempts = 0
    /\ pc_scroll = "idle"
    /\ scrolls = 0
    /\ last_scroll = <<>>
    /\ review_cards = NoValue

StampIdle ==
    /\ token_amount = 0
    /\ token_unit = <<>>
    /\ date_str = <<>>
    /\ clock = 0
    /\ timestamp = <<>>

CountersIdle ==
    /\ voting = [section |-> FALSE, up |-> <<>>, down |-> <<>>, old |-> <<>>]
    /\ counted_by = "none"
    /\ counters = <<>>

LoadIdle ==
    /\ csv_rows = <<>>
    /\ movies = <<>>
    /\ session_new = <<>>
    /\ row_idx = 0
    /\ pc_load = "idle"
    /\ load_runs = 0
    /\ cut_short = 0
    /\ loaded_once = <<>>

AfterStampIdle == CountersIdle /\ LoadIdle

AfterScrollIdle == StampIdle /\ AfterStampIdle

AfterScoreIdle == ScrollIdle /\ AfterScrollIdle

AfterSessionIdle == ScoreIdle /\ AfterScoreIdle

AfterScrapeIdle == SessionIdle /\ AfterSessionIdle

AfterParseIdle == ScrapeIdle /\ AfterScrapeIdle

LaterIdle == ParseIdle /\ AfterParseIdle

MergeInit ==
    /\ hash_seed \in HashSeeds
    /\ pc_sr = "loop"
    /\ endpoint_key = NoEndpoint
    /\ seen_texts = <<>>
    /\ all_reviews = <<>>
    /\ pooled = <<>>
    /\ RunsIdle
    /\ RatingIdle
    /\ ResolveIdle
    /\ LaterIdle

\* "for endpoint_key in endpoints": the next element is a key of ENDPOINTS
NextEndpoint ==
    /\ pc_sr = "loop"
    /\ \E k \in ENDPOINTS : endpoint_key' = k
    /\ pc_sr' = "merge"
    /\ UNCHANGED <<hash_seed, seen_texts, all_reviews, pooled, runVars, ratingVars, resolveVars, laterVars>>

\* "if endpoint_key not in self.ENDPOINTS: continue"
SkipUnknownEndpoint ==
    /\ pc_sr = "loop"
    /\ endpoint_key' = "unknown_endpoint"
    /\ UNCHANGED <<hash_seed, pc_sr, seen_texts, all_reviews, pooled, runVars, ratingVars, resolveVars, laterVars>>

\* the inner loop's body for the next review of the batch _scrape_endpoint
\* returned for the current endpoint (the batch is the site's choice)
MergeNext ==
    /\ pc_sr = "merge"
    /\ Len(pooled) < MaxPooled
    /\ \E card \in Cards :
         LET review == ParseCard(hash_seed, card, endpoint_key)
         IN  /\ seen_texts' = MergeReview(seen_texts, review, hash_seed)
             /\ pooled' = Append(pooled, review)
    /\ UNCHANGED <<hash_seed, pc_sr, endpoint_key, all_reviews, runVars, ratingVars, resolveVars, laterVars>>

\* the batch is exhausted: time.sleep(self.rate_limit), back to the outer loop
EndBatch ==
    /\ pc_sr = "merge"
    /\ pc_sr' = "loop"
    /\ UNCHANGED <<hash_seed, endpoint_key, seen_texts, all_reviews, pooled, runVars, ratingVars, resolveVars, laterVars>>

\* the endpoints are exhausted: build all_reviews and return it
FinishScrape ==
    /\ pc_sr = "loop"
    /\ all_reviews' = ExtractReviews(seen_texts)
    /\ pc_sr' = "done"
    /\ UNCHANGED <<hash_seed, endpoint_key, seen_texts, pooled, runVars, ratingVars, resolveVars, laterVars>>

MergeNext_ == NextEndpoint \/ SkipUnknownEndpoint \/ MergeNext \/ EndBatch \/ FinishScrape

SpecMerge == MergeInit /\ [][MergeNext_]_vars

(***************************************************************************)
(* The dedup merge on reviews of any category: a known one, one the table  *)
(* PRIORITIES does not hold, none at all                                   *)
(***************************************************************************)
\* a category that is no key of PRIORITIES
UnknownType == "staff"

\* review without its key 'review_type'
WithoutType(review) == [ f \in (DOMAIN review) \ {"review_type"} |-> review[f] ]

\* the reviews the inner loop may be given
AnyReviews ==
    { ParseCard(0, card, k) : card \in Cards, k \in ENDPOINTS }
    \cup { [ParseCard(0, card, "all_audience") EXCEPT !.review_type = UnknownType] : card \in Cards }
    \cup { WithoutType(ParseCard(0, card, "all_audience")) : card \in Cards }

\* scrape_reviews has reached its inner loop with an empty dict
CategoryInit ==
    /\ hash_seed = 0
    /\ pc_sr = "merge"
    /\ endpoint_key = NoEndpoint
    /\ seen_texts = <<>>
    /\ all_reviews = <<>>
    /\ pooled = <<>>
    /\ RunsIdle
    /\ RatingIdle
    /\ ResolveIdle
    /\ LaterIdle

\* the body of "for review in reviews" for one more review
MergeAnyReview ==
    /\ pc_sr = "merge"
    /\ Len(pooled) < MaxPooled
    /\ \E review \in AnyReviews :
         /\ seen_texts' = MergeReview(seen_texts, review, hash_seed)
         /\ pooled' = Append(pooled, review)
    /\ UNCHANGED <<hash_seed, pc_sr, endpoint_key, all_reviews, runVars, ratingVars,
                   resolveVars, laterVars>>

CategoryNext == MergeAnyReview

SpecCategory == CategoryInit /\ [][CategoryNext]_vars

(***************************************************************************)
(* The fingerprint across process runs                                     *)
(***************************************************************************)
FingerprintInit ==
    /\ hash_seed \in HashSeeds
    /\ MergeIdle
    /\ RunsIdle
    /\ RatingIdle
    /\ ResolveIdle
    /\ LaterIdle

\* a new interpreter process starts: its string hashes get a fresh salt
StartProcess ==
    /\ runs < MaxRuns
    /\ runs' = runs + 1
    /\ hash_seed' \in HashSeeds
    /\ UNCHANGED <<pc_sr, endpoint_key, seen_texts, all_reviews, pooled, stored, ratingVars, resolveVars, laterVars>>

\* _parse_review_card_selenium on a card of an endpoint's page; the review
\* goes to the reviews table with its source_id
ParseReviewCard ==
    /\ Cardinality(stored) < MaxStored
    /\ \E card \in Cards, k \in ENDPOINTS :
         stored' = stored \cup
            { [ endpoint    |-> k,
                fingerprint |-> Hash(hash_seed, card.text),
                review      |-> ParseCard(hash_seed, card, k) ] }
    /\ UNCHANGED <<mergeVars, runs, ratingVars, resolveVars, laterVars>>

FingerprintNext == StartProcess \/ ParseReviewCard

SpecFingerprint == FingerprintInit /\ [][FingerprintNext]_vars

(***************************************************************************)
(* Movie.get_best_rating and Movie.get_rating_metadata                     *)
(***************************************************************************)
\* the ratings and vote counts the loader and the scraper store; a TMDB
\* vote_average has three decimals and is 0.0 for a movie without votes, an
\* IMDb rating has one decimal and is never stored as 0 (scrape_movie_rating
\* returns None for it)
TmdbRatings == {0, 6994, 6996, 7000, 7706}
ImdbRatings == {7700, 8000}
TmdbVoteCounts == {0, 1000}
ImdbVoteCounts == {0, 500}
ScrapeTicks == {0, 1}

MaxTime == MaxDays * TicksPerDay

\* "< 7": the age in days below which the scraped rating is preferred
FreshDays == 7

\* "> 1.0": the difference above which the note asks to investigate
LargeDifference == 1000

\* Python's truth value of a column value: None and 0 are false
Truthy(x) == x # NoValue /\ x # 0

\* timedelta.days: the whole days of a time span, rounded down
Days(ticks) == ticks \div TicksPerDay

\* a bug a maintainer could make: "<=" for "<"
IsFresh_Inclusive(days_old) == days_old <= FreshDays

\* "if days_old < 7"
IsFresh(days_old) == days_old < FreshDays

\* "self.tmdb_vote_count or 1"
Weight(vote_count) == IF Truthy(vote_count) THEN vote_count ELSE 1

\* a bug a maintainer could make: the value cut to two decimals, not rounded
Round2_Truncate(num, den) == 10 * (num \div (10 * den))

\* round(num / den, 2) on thousandths: the nearest hundredth, ties to even
Round2(num, den) ==
    LET q == num \div (10 * den)
        r == num - q * 10 * den
    IN  IF 2 * r < 10 * den THEN 10 * q
        ELSE IF 2 * r > 10 * den THEN 10 * (q + 1)
        ELSE IF q % 2 = 0 THEN 10 * q ELSE 10 * (q + 1)

\* a bug a maintainer could make: the sum divided by one weight, not by both
WeightedAverage_OneWeight(tmdb, tmdb_weight, imdb, imdb_weight) ==
    Round2(tmdb * tmdb_weight + imdb * imdb_weight, tmdb_weight)

\* Strategy 2: the vote-weighted average, rounded
WeightedAverage(tmdb, tmdb_weight, imdb, imdb_weight) ==
    Round2(tmdb * tmdb_weight + imdb * imdb_weight, tmdb_weight + imdb_weight)

Movie == [ tmdb_rating     |-> tmdb_rating,
           tmdb_vote_count |-> tmdb_vote_count,
           imdb_rating     |-> imdb_rating,
           imdb_vote_count |-> imdb_vote_count,
           scraped_at      |-> scraped_at ]

\* get_best_rating of movie m, called when the clock reads utcnow
GetBestRating(m, utcnow) ==
    IF /\ Truthy(m.imdb_rating)
       /\ m.scraped_at # NoValue
       /\ IsFresh(Days(utcnow - m.scraped_at))
    THEN m.imdb_rating
    ELSE IF Truthy(m.tmdb_rating) /\ Truthy(m.imdb_rating)
    THEN WeightedAverage(m.tmdb_rating, Weight(m.tmdb_vote_count),
                         m.imdb_rating, Weight(m.imdb_vote_count))
    ELSE IF Truthy(m.imdb_rating) THEN m.imdb_rating ELSE m.tmdb_rating

\* result['sources'] of get_rating_metadata
Sources(m, utcnow) ==
    (IF Truthy(m.tmdb_rating)
     THEN << [ source |-> "tmdb_csv", rating |-> m.tmdb_rating,
               votes |-> m.tmdb_vote_count, age_days |-> NoValue ] >>
     ELSE <<>>)
    \o
    (IF Truthy(m.imdb_rating)
     THEN << [ source |-> "imdb_scraped", rating |-> m.imdb_rating,
               votes |-> m.imdb_vote_count,
               age_days |-> IF m.scraped_at # NoValue
                            THEN Days(utcnow - m.scraped_at) ELSE NoValue,
               scraped_at |-> m.scraped_at ] >>
     ELSE <<>>)

AbsDiff(a, b) == IF a >= b THEN a - b ELSE b - a

\* a bug a maintainer could make: ">=" for ">"
IsLargeDifference_Inclusive(difference) == difference >= LargeDifference

\* "result['difference'] > 1.0"
IsLargeDifference(difference) == difference > LargeDifference

\* get_rating_metadata of movie m: the dict it returns, as a record that has
\* the fields difference and note only when the dict has these keys
GetRatingMetadata(m, utcnow) ==
    LET difference == Round2(AbsDiff(m.tmdb_rating, m.imdb_rating), 1)
    IN  IF Truthy(m.tmdb_rating) /\ Truthy(m.imdb_rating)
        THEN [ recommended_rating |-> GetBestRating(m, utcnow),
               sources    |-> Sources(m, utcnow),
               difference |-> difference,
               note       |-> IF IsLargeDifference(difference)
                              THEN "Large difference - investigate"
                              ELSE "Ratings are similar" ]
        ELSE [ recommended_rating |-> GetBestRating(m, utcnow),
               sources    |-> Sources(m, utcnow) ]

\* a Movie row as the loader and the scraping runs leave it
RatingInit ==
    /\ hash_seed = 0
    /\ MergeIdle
    /\ RunsIdle
    /\ tmdb_rating \in TmdbRatings \cup {NoValue}
    /\ tmdb_vote_count \in TmdbVoteCounts \cup {NoValue}
    /\ imdb_rating \in ImdbRatings \cup {NoValue}
    /\ imdb_vote_count \in ImdbVoteCounts \cup {NoValue}
    /\ scraped_at \in ScrapeTicks \cup {NoValue}
    /\ now = 1
    /\ ret = [fn |-> "none"]
    /\ first_best = <<>>
    /\ ResolveIdle
    /\ LaterIdle

\* a call of movie.get_best_rating() at some later moment
CallGetBestRating ==
    /\ \E t \in now..MaxTime :
         /\ now' = t
         /\ ret' = [fn |-> "get_best_rating", value |-> GetBestRating(Movie, t)]
         /\ first_best' = IF first_best = <<>>
                          THEN <<GetBestRating(Movie, t)>> ELSE first_best
    /\ UNCHANGED <<mergeVars, runVars, movieVars, resolveVars, laterVars>>

\* a call of movie.get_rating_metadata() at some later moment
CallGetRatingMetadata ==
    /\ \E t \in now..MaxTime :
         /\ now' = t
         /\ ret' = [fn |-> "get_rating_metadata", value |-> GetRatingMetadata(Movie, t)]
    /\ UNCHANGED <<mergeVars, runVars, movieVars, first_best, resolveVars, laterVars>>

RatingNext == CallGetBestRating \/ CallGetRatingMetadata

SpecRating == RatingInit /\ [][RatingNext]_vars

(***************************************************************************)
(* Identifier resolution: search_movie of both scrapers                    *)
(***************************************************************************)
\* the queries: a title, and a year or None
Titles == {"The Matrix", "Fast & Furious"}
QueryYears == {NoYear, 2011}

\* "best_score >= 0.7", in hundredths
MatchThreshold == 70

\* "match_score += 0.1", in hundredths
YearBonus == 10

\* "year_diff <= 2" of _search_via_selenium
YearTolerance == 2

\* "threshold: int = 60" of search_movie_fuzzy
FuzzyThreshold == 60

\* "year_diff <= 1" of search_movie_fuzzy, "[year - 1, year, year + 1]" of
\* search_movie
FuzzyYearTolerance == 1

\* what a search page shows of one result: kind "malformed" for an element
\* the parsing of which raises or yields no link, kind "tv" for a link to a TV
\* show; score is the title score of the result against the query, in
\* hundredths; released tells whether the page shows a runtime or a rating
MalformedItem ==
    [kind |-> "malformed", id |-> NoId, score |-> 0, year |-> NoYear, released |-> FALSE]

MovieItems ==
    { [kind |-> "movie", id |-> "a", score |-> 72, year |-> NoYear, released |-> TRUE],
      [kind |-> "movie", id |-> "b", score |-> 65, year |-> 2012,   released |-> TRUE],
      [kind |-> "movie", id |-> "c", score |-> 72, year |-> 2013,   released |-> TRUE],
      [kind |-> "movie", id |-> "d", score |-> 55, year |-> 2011,   released |-> FALSE],
      [kind |-> "movie", id |-> "e", score |-> 72, year |-> 2011,   released |-> TRUE],
      [kind |-> "movie", id |-> "f", score |-> 65, year |-> 2011,   released |-> TRUE],
      [kind |-> "movie", id |-> "g", score |-> 65, year |-> 2012,   released |-> TRUE] }

RtItems ==
    MovieItems \cup
    { MalformedItem,
      [kind |-> "tv", id |-> "tv", score |-> 100, year |-> NoYear, released |-> TRUE] }

ImdbItems == MovieItems \cup {MalformedItem}

\* the result lists of a page: at most MaxResults results
Pages(items) == UNION { [1..n -> items] : n \in 0..MaxResults }

\* what the site and the browser do on one search of Rotten Tomatoes: the
\* driver fails to start ("init", only when no driver is open), driver.get
\* fails ("get"), the wait for the result rows times out ("wait"), or the page
\* loads with a list of results
RtWorlds(drv) ==
    { [fail |-> f, layout |-> "rt", results |-> <<>>] :
        f \in (IF drv = "none" THEN {"init"} ELSE {}) \cup {"get", "wait"} }
    \cup { [fail |-> "none", layout |-> "rt", results |-> p] : p \in Pages(RtItems) }

\* what the site does on one search of IMDb: session.get raises ("connection",
\* "timeout"), raise_for_status raises ("http"), or a page arrives; layout
\* tells which selector of search_movie finds the result links
ImdbWorlds(layouts) ==
    { [fail |-> f, layout |-> "none", results |-> <<>>] :
        f \in {"connection", "timeout", "http"} }
    \cup { [fail |-> "none", layout |-> l, results |-> p] :
             l \in layouts, p \in Pages(ImdbItems) }

\* the exception a failure raises
Raised(world) ==
    CASE world.fail = "init"       -> "WebDriverException"
      [] world.fail = "get"        -> "WebDriverException"
      [] world.fail = "wait"       -> "TimeoutException"
      [] world.fail = "connection" -> "ConnectionError"
      [] world.fail = "timeout"    -> "Timeout"
      [] world.fail = "http"       -> "HTTPError"
      [] OTHER                     -> NoExc

\* isinstance(exc, cls) for the classes the except clauses name
IsInstance(exc, cls) ==
    CASE cls = "Exception"        -> exc # NoExc
      [] cls = "TimeoutException" -> exc = "TimeoutException"
      [] OTHER                    -> FALSE

\* an except clause of the try statement takes the exception
Caught(exc, handlers) == \E i \in 1..Len(handlers) : IsInstance(exc, handlers[i])

\* the outcome of a try statement the except clauses of which return None:
\* the value it yields, the exception its body raised, and the exception that
\* leaves it
TryReturnNone(exc, value, handlers) ==
    IF exc = NoExc THEN [value |-> value, raised |-> NoExc, escaped |-> NoExc]
    ELSE IF Caught(exc, handlers)
         THEN [value |-> NoId, raised |-> exc, escaped |-> NoExc]
         ELSE [value |-> NoId, raised |-> exc, escaped |-> exc]

\* no best match yet: best_match = None, best_score = 0
NoBest == [found |-> FALSE, item |-> MalformedItem, score |-> 0]

\* the body of "for result in results" of _search_via_selenium
RtMatchStep(item, year, best) ==
    IF item.kind = "malformed" THEN best          \* except Exception: continue
    ELSE IF item.kind = "tv" THEN best            \* '/tv/' in result_url: continue
    ELSE LET both == year # NoYear /\ item.year # NoYear
             year_diff == AbsDiff(item.year, year)
             year_compatible == ~both \/ year_diff <= YearTolerance
             match_score == item.score
                            + (IF both /\ year_diff <= YearTolerance THEN YearBonus ELSE 0)
         IN  IF year_compatible /\ match_score > best.score
             THEN [found |-> TRUE, item |-> item, score |-> match_score]
             ELSE best

RECURSIVE RtBestMatch(_, _, _)
RtBestMatch(results, year, best) ==
    IF results = <<>> THEN best
    ELSE RtBestMatch(Tail(results), year, RtMatchStep(Head(results), year, best))

\* _search_via_selenium(title, year): the slug of the best match, or None
SearchViaSelenium(world, year) ==
    LET best == RtBestMatch(world.results, year, NoBest)
        slug == IF world.results # <<>> /\ best.found /\ best.score >= MatchThreshold
                THEN best.item.id ELSE NoId
    IN  TryReturnNone(Raised(world), slug, <<"TimeoutException", "Exception">>)

\* _generate_slug(title, year=None): lower case, '&' to ' and ', other
\* punctuation removed, words joined by '_'
GenerateSlug(title) ==
    CASE title = "The Matrix"     -> "the_matrix"
      [] title = "Fast & Furious" -> "fast_and_furious"

\* "any(str(y) in text for y in [year - 1, year, year + 1])"
YearInText(item, year) ==
    item.year # NoYear /\ AbsDiff(item.year, year) <= FuzzyYearTolerance

\* Methods 1 and 2 of search_movie look at the first result link only
FirstLink(results) == IF results = <<>> THEN MalformedItem ELSE Head(results)

\* Method 3 of search_movie: the first link that passes
RECURSIVE Method3(_, _)
Method3(results, year) ==
    IF results = <<>> THEN NoId
    ELSE LET link == Head(results)
         IN  IF link.kind = "malformed" THEN Method3(Tail(results), year)
             ELSE IF year = NoYear THEN link.id
             ELSE IF link.released /\ YearInText(link, year) THEN link.id
             ELSE Method3(Tail(results), year)

\* the exact search of search_movie (Methods 1 to 3): an IMDb ID or None
ExactSearch(world, year) ==
    LET first == FirstLink(world.results)
    IN  IF /\ world.layout = "testid"
           /\ first.kind # "malformed"
           /\ (year = NoYear \/ YearInText(first, year))
        THEN first.id
        ELSE IF world.layout = "ipc" /\ first.kind # "malformed"
        THEN first.id
        ELSE Method3(world.results, year)

\* the body of "for result in results[:10]" of search_movie_fuzzy
FuzzyMatchStep(item, year, best) ==
    IF item.kind = "malformed" THEN best          \* not appended to results
    ELSE LET year_match == ~(year # NoYear /\ item.year # NoYear)
                           \/ AbsDiff(year, item.year) <= FuzzyYearTolerance
         IN  IF year_match /\ item.score > best.score
             THEN [found |-> TRUE, item |-> item, score |-> item.score]
             ELSE best

RECURSIVE FuzzyBestMatch(_, _, _)
FuzzyBestMatch(results, year, best) ==
    IF results = <<>> THEN best
    ELSE FuzzyBestMatch(Tail(results), year, FuzzyMatchStep(Head(results), year, best))

\* search_movie_fuzzy(title, year): an IMDb ID or None
SearchMovieFuzzy(world, year, available) ==
    LET best == FuzzyBestMatch(world.results, year, NoBest)
        imdb_id == IF best.found /\ best.score >= FuzzyThreshold
                   THEN best.item.id ELSE NoId
    IN  IF ~available THEN [value |-> NoId, raised |-> NoExc, escaped |-> NoExc]
        ELSE TryReturnNone(Raised(world), imdb_id, <<"Exception">>)

\* both scrapers constructed, no search made; fuzzywuzzy is installed or not
ResolveInit ==
    /\ hash_seed = 0
    /\ MergeIdle
    /\ RunsIdle
    /\ RatingIdle
    /\ LaterIdle
    /\ source = "none"
    /\ pc_search = "idle"
    /\ query_title = "The Matrix"
    /\ query_year = NoYear
    /\ driver = "none"
    /\ FUZZY_AVAILABLE \in BOOLEAN
    /\ fetched = NoWorld
    /\ trail = <<>>
    /\ result = NoId

\* a caller calls search_movie(title, year) of one of the scrapers
CallSearchMovie(src, first_stage) ==
    /\ pc_search \in {"idle", "returned"}
    /\ source' = src
    /\ pc_search' = first_stage
    /\ query_title' \in Titles
    /\ query_year' \in QueryYears
    /\ fetched' = NoWorld
    /\ trail' = <<>>
    /\ result' = NoId
    /\ UNCHANGED <<driver, FUZZY_AVAILABLE, mergeVars, runVars, ratingVars, laterVars>>

\* RottenTomatoesSeleniumScraper.search_movie is entered
RtSearchMovie == CallSearchMovie("rt", "S0")

\* IMDbScraper.search_movie is entered
ImdbSearchMovie == CallSearchMovie("imdb", "exact")

\* a stage that calls _search_via_selenium: its value is returned when it is
\* a slug, else search_movie goes on with the stage `next`
RtSearchStage(stage, year, next) ==
    /\ source = "rt"
    /\ pc_search = stage
    /\ \E world \in RtWorlds(driver) :
         LET r == SearchViaSelenium(world, year)
         IN  /\ fetched' = world
             /\ driver' = IF world.fail = "init" THEN "none" ELSE "open"
             /\ trail' = Append(trail, [stage |-> stage, year |-> year,
                                        raised |-> r.raised, value |-> r.value])
             /\ pc_search' = IF r.escaped # NoExc THEN "raised"
                             ELSE IF r.value # NoId THEN "returned" ELSE next
             /\ result' = IF r.escaped = NoExc THEN r.value ELSE result
    /\ UNCHANGED <<source, query_title, query_year, FUZZY_AVAILABLE, mergeVars, runVars, ratingVars, laterVars>>

\* a bug a maintainer could make: the "if year:" before STRATEGY 2 left out
RtSearchNoYear_AlwaysWithYear == RtSearchStage("S0", NoYear, "S1")

\* STRATEGY 1: the search without year
RtSearchNoYear ==
    RtSearchStage("S0", NoYear, IF query_year # NoYear THEN "S1" ELSE "S3")

\* STRATEGY 2: "if year:" the search with year
RtSearchWithYear == RtSearchStage("S1", query_year, "S3")

\* STRATEGY 3: the generated slug is returned
RtGenerateSlug ==
    /\ source = "rt"
    /\ pc_search = "S3"
    /\ result' = GenerateSlug(query_title)
    /\ trail' = Append(trail, [stage |-> "S3", year |-> NoYear,
                                raised |-> NoExc, value |-> GenerateSlug(query_title)])
    /\ pc_search' = "returned"
    /\ UNCHANGED <<source, query_title, query_year, driver, FUZZY_AVAILABLE, fetched, mergeVars, runVars, ratingVars, laterVars>>

\* the exact search of IMDbScraper.search_movie, inside the try statement of
\* the whole method: the ID found is returned, an exception makes the method
\* return None, and with no ID found the method goes on to the fuzzy search
ImdbExactSearch ==
    /\ source = "imdb"
    /\ pc_search = "exact"
    /\ \E world \in ImdbWorlds({"testid", "ipc", "plain"}) :
         LET r == TryReturnNone(Raised(world), ExactSearch(world, query_year), <<"Exception">>)
         IN  /\ fetched' = world
             /\ trail' = Append(trail, [stage |-> "exact", year |-> query_year,
                                        raised |-> r.raised, value |-> r.value])
             /\ pc_search' = IF r.escaped # NoExc THEN "raised"
                             ELSE IF r.raised # NoExc \/ r.value # NoId THEN "returned"
                             ELSE "fuzzy"
             /\ result' = IF r.escaped = NoExc THEN r.value ELSE result
    /\ UNCHANGED <<source, query_title, query_year, driver, FUZZY_AVAILABLE, mergeVars, runVars, ratingVars, laterVars>>

\* "fuzzy_result = self.search_movie_fuzzy(title, year)", still inside the try
\* statement of search_movie, which returns fuzzy_result or None
ImdbFuzzySearch ==
    /\ source = "imdb"
    /\ pc_search = "fuzzy"
    /\ \E world \in ImdbWorlds({"plain"}) :
         LET f == SearchMovieFuzzy(world, query_year, FUZZY_AVAILABLE)
             r == TryReturnNone(f.escaped, f.value, <<"Exception">>)
         IN  /\ fetched' = IF FUZZY_AVAILABLE THEN world ELSE fetched
             /\ trail' = Append(trail, [stage |-> "fuzzy", year |-> query_year,
                                        raised |-> f.raised, value |-> f.value])
             /\ pc_search' = IF r.escaped # NoExc THEN "raised" ELSE "returned"
             /\ result' = IF r.escaped = NoExc THEN r.value ELSE result
    /\ UNCHANGED <<source, query_title, query_year, driver, FUZZY_AVAILABLE, mergeVars, runVars, ratingVars, laterVars>>

ResolveNext ==
    \/ RtSearchMovie \/ RtSearchNoYear \/ RtSearchWithYear \/ RtGenerateSlug
    \/ ImdbSearchMovie \/ ImdbExactSearch \/ ImdbFuzzySearch

SpecResolve == ResolveInit /\ [][ResolveNext]_vars

(***************************************************************************)
(* The body text of a review container: _parse_review of the IMDb scraper  *)
(* and _parse_review_card_selenium of the Rotten Tomatoes scraper          *)
(***************************************************************************)
\* a text is a sequence of characters
Digits == {"0", "1", "2", "3", "4", "5", "6", "7", "8", "9"}
WordChars == Digits \cup {"a", "S", "p", "o", "i", "l", "e", "r"}

\* "len(text) < 20" of _parse_review
ImdbMinLength == 20

\* "len(text) < 10" of _parse_review_card_selenium
RtMinLength == 10

\* the strings the parsers remove
Spoiler == <<"S", "p", "o", "i", "l", "e", "r">>
SeeMore == <<"S", "e", "e", " ", "M", "o", "r", "e">>
SeeLess == <<"S", "e", "e", " ", "L", "e", "s", "s">>
ContentCollapsed ==
    <<"C", "o", "n", "t", "e", "n", "t", " ", "c", "o", "l", "l", "a", "p", "s", "e", "d", ".">>

\* a rating in front of a text, as in "7/10 a fine film"
RatingPrefix == <<"7", "/", "1", "0", " ">>

\* the body texts the pages hold: with or without a rating in front, n
\* letters, with or without the text of a button after them
RawText(rated, n, button) ==
    (IF rated THEN RatingPrefix ELSE <<>>)
    \o [i \in 1..n |-> "a"]
    \o (IF button = <<>> THEN <<>> ELSE <<" ">> \o button)

RawTexts(button) ==
    { RawText(rated, n, b) : rated \in BOOLEAN, n \in 0..MaxLetters, b \in {<<>>, button} }

\* s without its first k elements
Drop(s, k) == SubSeq(s, k + 1, Len(s))

\* the number of elements at the start, at the end, of s that are in set
RECURSIVE LeadLen(_, _)
LeadLen(s, set) ==
    IF s # <<>> /\ Head(s) \in set THEN 1 + LeadLen(Tail(s), set) ELSE 0

RECURSIVE TrailLen(_, _)
TrailLen(s, set) ==
    IF s # <<>> /\ s[Len(s)] \in set
    THEN 1 + TrailLen(SubSeq(s, 1, Len(s) - 1), set) ELSE 0

\* str.strip()
Strip(s) == SubSeq(s, LeadLen(s, {" "}) + 1, Len(s) - TrailLen(s, {" "}))

StartsWith(s, w) == Len(s) >= Len(w) /\ SubSeq(s, 1, Len(w)) = w

\* str.replace(w, '')
RECURSIVE Remove(_, _)
Remove(s, w) ==
    IF s = <<>> THEN <<>>
    ELSE IF StartsWith(s, w) THEN Remove(Drop(s, Len(w)), w)
    ELSE <<Head(s)>> \o Remove(Tail(s), w)

\* re.sub(r'\bw\b', '', s): w is removed where no word character is next to
\* it; before tells whether the character before s is a word character
RECURSIVE RemoveWord(_, _, _)
RemoveWord(s, w, before) ==
    IF s = <<>> THEN <<>>
    ELSE IF /\ ~before
            /\ StartsWith(s, w)
            /\ (Len(s) = Len(w) \/ s[Len(w) + 1] \notin WordChars)
         THEN RemoveWord(Drop(s, Len(w)), w, TRUE)
         ELSE <<Head(s)>> \o RemoveWord(Tail(s), w, Head(s) \in WordChars)

\* re.sub(r'\s+', ' ', s)
RECURSIVE CollapseSpaces(_)
CollapseSpaces(s) ==
    IF s = <<>> THEN <<>>
    ELSE IF Head(s) = " " THEN <<" ">> \o CollapseSpaces(Drop(s, LeadLen(s, {" "})))
    ELSE <<Head(s)>> \o CollapseSpaces(Tail(s))

\* re.sub(r'^\d+/\d+\s*', '', s)
StripLeadingRating(s) ==
    LET a == LeadLen(s, Digits)
        afterA == Drop(s, a)
        b == IF afterA # <<>> /\ Head(afterA) = "/" THEN LeadLen(Tail(afterA), Digits) ELSE 0
        afterB == Drop(afterA, b + 1)
    IN  IF a >= 1 /\ b >= 1 THEN Drop(afterB, LeadLen(afterB, {" "})) ELSE s

\* _parse_review: get_text(separator=' ', strip=True), "Spoiler" removed,
\* white space collapsed and stripped
ImdbCleanText(raw) == Strip(CollapseSpaces(RemoveWord(Strip(raw), Spoiler, FALSE)))

\* "if not text or len(text) < 20"
ImdbTooShort(text) == text = <<>> \/ Len(text) < ImdbMinLength

\* _parse_review: None, or the dict of the review (its text and review_length)
ParseReview(raw) ==
    LET cleaned == ImdbCleanText(raw)
        text == StripLeadingRating(cleaned)
    IN  IF ImdbTooShort(cleaned) THEN <<>>
        ELSE << [text |-> text, review_length |-> Len(text)] >>

\* _parse_review_card_selenium: the three strings removed, then strip()
RtCleanText(raw) ==
    Strip(Remove(Remove(Remove(Strip(raw), ContentCollapsed), SeeLess), SeeMore))

\* "if not text or len(text) < 10"
RtTooShort(text) == text = <<>> \/ Len(text) < RtMinLength

\* _parse_review_card_selenium: None, or the dict of the review
ParseReviewCardSelenium(raw) ==
    LET text == RtCleanText(raw)
    IN  IF RtTooShort(text) THEN <<>>
        ELSE << [text |-> text, review_length |-> Len(text)] >>

\* no container parsed yet
ParseInit ==
    /\ hash_seed = 0
    /\ MergeIdle
    /\ RunsIdle
    /\ RatingIdle
    /\ ResolveIdle
    /\ ParseIdle
    /\ AfterParseIdle

\* scrape_reviews hands a container of the page to _parse_review
CallParseReview ==
    /\ \E raw \in RawTexts(Spoiler) :
         /\ container' = raw
         /\ parsed' = ParseReview(raw)
    /\ extractor' = "imdb"
    /\ UNCHANGED <<mergeVars, runVars, ratingVars, resolveVars, afterParseVars>>

\* _scrape_endpoint hands a review card to _parse_review_card_selenium
CallParseReviewCardSelenium ==
    /\ \E raw \in RawTexts(SeeMore) :
         /\ container' = raw
         /\ parsed' = ParseReviewCardSelenium(raw)
    /\ extractor' = "rt"
    /\ UNCHANGED <<mergeVars, runVars, ratingVars, resolveVars, afterParseVars>>

ParseNext == CallParseReview \/ CallParseReviewCardSelenium

SpecParse == ParseInit /\ [][ParseNext]_vars

(***************************************************************************)
(* scrape_reviews of both scrapers and its limit max_reviews               *)
(***************************************************************************)
\* a container without a body text that passes the parser's length test (the
\* parser returns None for it; the test itself is modelled above)
BlankCard == [text |-> "", author |-> "ann"]

\* the review cards and containers a page may hold
ReviewCards == Cards \cup {BlankCard}

CardLists == UNION { [1..n -> ReviewCards] : n \in 0..MaxCards }

\* the limits a call is made with
Limits == 0..MaxLimit

\* what _scrape_endpoint meets: the driver does not start ("init"), driver.get
\* fails ("get"), no review card shows up in time ("wait"), or the page loads
\* with its review cards
RtReviewPages ==
    { [fail |-> f, cards |-> <<>>] : f \in {"init", "get", "wait"} }
    \cup { [fail |-> "none", cards |-> c] : c \in CardLists }

\* what one request of IMDbScraper.scrape_reviews meets: session.get or
\* raise_for_status raises ("error"), or a page arrives with its review
\* containers, with or without a load-more element that has a data-key
ImdbReviewPages ==
    { [fail |-> "error", containers |-> <<>>, has_key |-> FALSE] }
    \cup { [fail |-> "none", containers |-> c, has_key |-> k] :
             c \in CardLists, k \in BOOLEAN }

\* s[:n] for n >= 0
Take(s, n) == SubSeq(s, 1, IF n < Len(s) THEN n ELSE Len(s))

\* the loop over the cards of _scrape_endpoint: the reviews of the cards that
\* parse
RECURSIVE ParseCards(_, _, _)
ParseCards(cards, endpoint_type, seed) ==
    IF cards = <<>> THEN <<>>
    ELSE (IF Head(cards).text = "" THEN <<>>
          ELSE <<ParseCard(seed, Head(cards), endpoint_type)>>)
         \o ParseCards(Tail(cards), endpoint_type, seed)

\* a bug a maintainer could make: the slice [:max_reviews] left out
ScrapeEndpoint_NoSlice(page, endpoint_type, max, seed) ==
    IF page.fail # "none" THEN <<>>
    ELSE ParseCards(page.cards, endpoint_type, seed)

\* _scrape_endpoint: [] on every failure, else the reviews of
\* review_cards[:max_reviews]
ScrapeEndpoint(page, endpoint_type, max, seed) ==
    IF page.fail # "none" THEN <<>>
    ELSE ParseCards(Take(page.cards, max), endpoint_type, seed)

\* the dict _parse_review returns for a container (its text and author)
ParseContainer(card) ==
    IF card.text = "" THEN <<>> ELSE << [text |-> card.text, author |-> card.author] >>

\* "for container in review_containers": stops at max_reviews reviews
RECURSIVE CollectReviews(_, _, _)
CollectReviews(revs, containers, max) ==
    IF containers = <<>> \/ Len(revs) >= max THEN revs
    ELSE CollectReviews(revs \o ParseContainer(Head(containers)), Tail(containers), max)

\* both scrapers constructed, no scrape_reviews call made
ScrapeInit ==
    /\ hash_seed = 0
    /\ MergeIdle
    /\ RunsIdle
    /\ RatingIdle
    /\ ResolveIdle
    /\ ParseIdle
    /\ ScrapeIdle
    /\ AfterScrapeIdle

\* RottenTomatoesSeleniumScraper.scrape_reviews(movie_slug, max_reviews) is
\* entered
RtScrapeReviews ==
    /\ pc_sr = "idle" /\ pc_isr = "idle"
    /\ max_reviews' \in Limits
    /\ pc_sr' = "loop"
    /\ UNCHANGED <<hash_seed, endpoint_key, seen_texts, all_reviews, pooled, runVars,
                   ratingVars, resolveVars, parseVars,
                   batch_sizes, pc_isr, imdb_reviews, pagination_key, fetches,
                   afterScrapeVars>>

\* one iteration of "for endpoint_key in endpoints" for a key of ENDPOINTS:
\* _scrape_endpoint, the merge of its reviews, time.sleep(self.rate_limit)
RtScrapeEndpoint ==
    /\ pc_sr = "loop"
    /\ Len(batch_sizes) < MaxEndpoints
    /\ \E k \in ENDPOINTS, page \in RtReviewPages :
         LET batch == ScrapeEndpoint(page, k, max_reviews, hash_seed)
         IN  /\ Len(pooled) + Len(batch) <= MaxPooled
             /\ endpoint_key' = k
             /\ seen_texts' = MergeBatch(seen_texts, batch, hash_seed)
             /\ pooled' = pooled \o batch
             /\ batch_sizes' = Append(batch_sizes, Len(batch))
    /\ UNCHANGED <<hash_seed, pc_sr, all_reviews, runVars, ratingVars, resolveVars, parseVars,
                   max_reviews, pc_isr, imdb_reviews, pagination_key, fetches,
                   afterScrapeVars>>

\* IMDbScraper.scrape_reviews(imdb_id, max_reviews) is entered
ImdbScrapeReviews ==
    /\ pc_sr = "idle" /\ pc_isr = "idle"
    /\ max_reviews' \in Limits
    /\ pc_isr' = "loop"
    /\ imdb_reviews' = <<>>
    /\ pagination_key' = NoKey
    /\ UNCHANGED <<mergeVars, runVars, ratingVars, resolveVars, parseVars,
                   batch_sizes, fetches, afterScrapeVars>>

\* "pagination_key = load_more['data-key']": a key other than the one before
FurtherKey(key) == IF key = "key_a" THEN "key_b" ELSE "key_a"

\* one iteration of "while len(reviews) < max_reviews": the request, the loop
\* over the containers, the pagination key
ImdbScrapePage ==
    /\ pc_isr = "loop"
    /\ Len(imdb_reviews) < max_reviews
    /\ fetches' = IF fetches < MaxFetches THEN fetches + 1 ELSE fetches
    /\ \E page \in ImdbReviewPages :
         IF page.fail # "none" \/ page.containers = <<>>
         THEN \* "except Exception: return reviews", "if not review_containers: break"
              /\ pc_isr' = "done"
              /\ UNCHANGED <<imdb_reviews, pagination_key>>
         ELSE /\ imdb_reviews' = CollectReviews(imdb_reviews, page.containers, max_reviews)
              /\ pagination_key' = IF page.has_key THEN FurtherKey(pagination_key)
                                   ELSE pagination_key
              /\ pc_isr' = IF page.has_key THEN "loop" ELSE "done"
    /\ UNCHANGED <<mergeVars, runVars, ratingVars, resolveVars, parseVars,
                   max_reviews, batch_sizes, afterScrapeVars>>

\* the while condition is false: "return reviews"
ImdbLoopExit ==
    /\ pc_isr = "loop"
    /\ Len(imdb_reviews) >= max_reviews
    /\ pc_isr' = "done"
    /\ UNCHANGED <<mergeVars, runVars, ratingVars, resolveVars, parseVars,
                   max_reviews, batch_sizes, imdb_reviews, pagination_key, fetches,
                   afterScrapeVars>>

ScrapeNext ==
    \/ RtScrapeReviews \/ RtScrapeEndpoint \/ SkipUnknownEndpoint \/ FinishScrape
    \/ ImdbScrapeReviews \/ ImdbScrapePage \/ ImdbLoopExit

SpecScrape == ScrapeInit /\ [][ScrapeNext]_vars

\* scrape_reviews is sequential code: the next step of its loop is always taken
SpecScrapeFair ==
    /\ SpecScrape
    /\ WF_vars(ImdbScrapePage)
    /\ WF_vars(ImdbLoopExit)

(***************************************************************************)
(* The browser session of the Rotten Tomatoes scraper, the outbound calls  *)
(* of both scrapers, their waits and their attempts                        *)
(***************************************************************************)
\* "for attempt in range(3)" of get_tomatometer_score
RetryAttempts == 3

\* what webdriver.Chrome(...) and set_page_load_timeout(30) can do in
\* _init_driver: both succeed, the first raises, the second raises
LaunchOutcomes == {"ok", "chrome_raises", "timeout_raises"}

\* _init_driver on self.driver = d: returns at once if self.driver is set,
\* whatever the state of its session; else launches Chrome once and re-raises
\* what the launch raises
InitDriver(d, o) ==
    IF d # "None" THEN [driver |-> d, raised |-> FALSE, launches |-> 0]
    ELSE IF o = "ok" THEN [driver |-> "open", raised |-> FALSE, launches |-> 1]
    ELSE IF o = "chrome_raises" THEN [driver |-> "None", raised |-> TRUE, launches |-> 1]
    ELSE [driver |-> "broken", raised |-> TRUE, launches |-> 1]

\* what an operation records of its _init_driver call
DriverUse(op, d, i) ==
    [op |-> op, before |-> d, launches |-> i.launches, after |-> i.driver, raised |-> i.raised]

\* time.sleep: "rate_limit" for time.sleep(self.rate_limit), "pause" for
\* time.sleep(2), "backoff" for time.sleep(2 + attempt)
Sleep(net, kind) == [net EXCEPT !.waits = @ \cup {kind}]

\* session.get / driver.get: an outbound call; gap keeps the waits made since
\* the call before it (since the start for the first call)
OutboundCall(net) ==
    [calls |-> IF net.calls < MaxCalls THEN net.calls + 1 ELSE MaxCalls,
     waits |-> {},
     gap   |-> net.waits]

\* the attempts one get_tomatometer_score call can make: whether each loaded
\* the page; the loop leaves at the first that did, and after the third
ScoreAttempts ==
    { oc \in UNION { [1..n -> BOOLEAN] : n \in 1..RetryAttempts } :
        /\ \A i \in 1..(Len(oc) - 1) : ~oc[i]
        /\ Len(oc) < RetryAttempts => oc[Len(oc)] }

\* n iterations of the attempt loop: driver.get in each, time.sleep(2 + attempt)
\* after each failed one but the last
RECURSIVE Attempts(_, _, _)
Attempts(net, n, open) ==
    IF n = 0 THEN net
    ELSE LET prev == Attempts(net, n - 1, open)
             waited == IF n > 1 THEN Sleep(prev, "backoff") ELSE prev
         IN  IF open THEN OutboundCall(waited) ELSE waited

\* what a fetch records: the outcome of each attempt, the waits between the
\* attempts, what the fetch came to
Fetch(op, oc) ==
    [op |-> op, outcomes |-> oc, backoffs |-> Len(oc) - 1,
     result |-> IF oc[Len(oc)] THEN "ok" ELSE "failed"]

\* the requests of the IMDb scraper
ImdbOperations == {"search_movie", "search_movie_fuzzy", "scrape_reviews", "scrape_movie_rating"}

\* both scrapers constructed: self.driver = None
SessionInit ==
    /\ hash_seed = 0
    /\ MergeIdle
    /\ RunsIdle
    /\ RatingIdle
    /\ ResolveIdle
    /\ ParseIdle
    /\ ScrapeIdle
    /\ SessionIdle
    /\ AfterSessionIdle

\* the browser or its chromedriver dies, or the session goes stale
SessionBreaks ==
    /\ rt_driver = "open"
    /\ rt_driver' = "broken"
    /\ UNCHANGED <<mergeVars, runVars, ratingVars, resolveVars, parseVars, scrapeVars,
                   afterSessionVars,
                   pc_smr, with_year, endpoints_left, rt_net, imdb_net, last_use, last_fetch>>

\* RottenTomatoesSeleniumScraper.scrape_movie_reviews(title, year, max_reviews)
\* is entered
ScrapeMovieReviews ==
    /\ pc_smr \in {"idle", "returned", "raised"}
    /\ with_year' \in BOOLEAN
    /\ pc_smr' = "s0"
    /\ endpoints_left' = Cardinality(ENDPOINTS)
    /\ UNCHANGED <<mergeVars, runVars, ratingVars, resolveVars, parseVars, scrapeVars,
                   afterSessionVars,
                   rt_driver, rt_net, imdb_net, last_use, last_fetch>>

\* one _search_via_selenium call of search_movie (strategy 1 or 2):
\* _init_driver, driver.get(search_url), the wait, the choice of a result;
\* every exception ends in "return None"
SearchWithDriver ==
    /\ pc_smr \in {"s0", "s1"}
    /\ \E o \in LaunchOutcomes, loads \in BOOLEAN, found \in BOOLEAN :
         LET i == InitDriver(rt_driver, o)
             called == ~i.raised
             loaded == called /\ i.driver = "open" /\ loads
         IN  /\ found => loaded
             /\ loads => called /\ i.driver = "open"
             /\ rt_driver' = i.driver
             /\ last_use' = DriverUse("search", rt_driver, i)
             /\ rt_net' = IF called /\ i.driver = "open" THEN OutboundCall(rt_net) ELSE rt_net
             /\ last_fetch' = IF called THEN Fetch("search", <<loaded>>) ELSE last_fetch
             /\ pc_smr' = IF found THEN "scrape"
                          ELSE IF pc_smr = "s0" /\ with_year THEN "s1"
                          ELSE "fallback"
    /\ UNCHANGED <<mergeVars, runVars, ratingVars, resolveVars, parseVars, scrapeVars,
                   afterSessionVars,
                   with_year, endpoints_left, imdb_net>>

\* strategy 3 of search_movie, _generate_slug(title): a slug, the empty slug
\* of a title without letters and digits ("if not movie_slug: return []"), or
\* an exception (a title that is no string), caught by scrape_movie_reviews
FallbackSlug ==
    /\ pc_smr = "fallback"
    /\ \E slug \in {"slug", "empty", "raises"} :
         pc_smr' = IF slug = "slug" THEN "scrape" ELSE "finally"
    /\ UNCHANGED <<mergeVars, runVars, ratingVars, resolveVars, parseVars, scrapeVars,
                   afterSessionVars,
                   rt_driver, with_year, endpoints_left, rt_net, imdb_net, last_use, last_fetch>>

\* one iteration of the endpoint loop of scrape_reviews: _scrape_endpoint
\* (_init_driver, driver.get(url), time.sleep(2), the cards; every exception
\* ends in "return []"), then time.sleep(self.rate_limit); after the last
\* endpoint scrape_reviews returns
ScrapeEndpointWithDriver ==
    /\ pc_smr = "scrape"
    /\ endpoints_left > 0
    /\ \E o \in LaunchOutcomes, loads \in BOOLEAN :
         LET i == InitDriver(rt_driver, o)
             called == ~i.raised
             open == called /\ i.driver = "open"
             got == IF open THEN Sleep(OutboundCall(rt_net), "pause") ELSE rt_net
         IN  /\ loads => open
             /\ rt_driver' = i.driver
             /\ last_use' = DriverUse("endpoint", rt_driver, i)
             /\ last_fetch' = IF called THEN Fetch("endpoint", <<loads>>) ELSE last_fetch
             /\ rt_net' = Sleep(got, "rate_limit")
    /\ endpoints_left' = endpoints_left - 1
    /\ pc_smr' = IF endpoints_left = 1 THEN "finally" ELSE "scrape"
    /\ UNCHANGED <<mergeVars, runVars, ratingVars, resolveVars, parseVars, scrapeVars,
                   afterSessionVars,
                   with_year, imdb_net>>

\* the finally block of scrape_movie_reviews, _close_driver: "if self.driver:
\* self.driver.quit(); self.driver = None"; an exception of quit() leaves
\* _close_driver before the assignment and leaves scrape_movie_reviews
CloseDriver ==
    /\ pc_smr = "finally"
    /\ \E quit \in {"ok", "raises"} :
         IF rt_driver = "None"
         THEN /\ quit = "ok"
              /\ pc_smr' = "returned"
              /\ UNCHANGED rt_driver
         ELSE IF quit = "ok"
         THEN /\ rt_driver' = "None"
              /\ pc_smr' = "returned"
         ELSE /\ pc_smr' = "raised"
              /\ UNCHANGED rt_driver
    /\ UNCHANGED <<mergeVars, runVars, ratingVars, resolveVars, parseVars, scrapeVars,
                   afterSessionVars,
                   with_year, endpoints_left, rt_net, imdb_net, last_use, last_fetch>>

\* get_tomatometer_score(movie_slug): _init_driver, then up to three attempts
\* to load the page; None after the third failure and on every exception
GetTomatometerScore ==
    /\ pc_smr \in {"idle", "returned", "raised"}
    /\ \E o \in LaunchOutcomes, oc \in ScoreAttempts :
         LET i == InitDriver(rt_driver, o)
         IN  /\ i.raised => oc = <<FALSE, FALSE, FALSE>>
             /\ i.driver # "open" => \A n \in 1..Len(oc) : ~oc[n]
             /\ rt_driver' = i.driver
             /\ last_use' = DriverUse("score", rt_driver, i)
             /\ last_fetch' = IF i.raised THEN last_fetch ELSE Fetch("score", oc)
             /\ rt_net' = IF i.raised THEN rt_net
                          ELSE Attempts(rt_net, Len(oc), i.driver = "open")
    /\ pc_smr' = "idle"
    /\ UNCHANGED <<mergeVars, runVars, ratingVars, resolveVars, parseVars, scrapeVars,
                   afterSessionVars,
                   with_year, endpoints_left, imdb_net>>

\* one request of the IMDb scraper: time.sleep(self.rate_limit), then
\* session.get(...) once; what the request raises ends the operation
ImdbFetch ==
    /\ \E op \in ImdbOperations, ok \in BOOLEAN :
         last_fetch' = Fetch(op, <<ok>>)
    /\ imdb_net' = OutboundCall(Sleep(imdb_net, "rate_limit"))
    /\ UNCHANGED <<mergeVars, runVars, ratingVars, resolveVars, parseVars, scrapeVars,
                   afterSessionVars,
                   rt_driver, pc_smr, with_year, endpoints_left, rt_net, last_use>>

SessionNext ==
    \/ SessionBreaks \/ ScrapeMovieReviews \/ SearchWithDriver \/ FallbackSlug
    \/ ScrapeEndpointWithDriver \/ CloseDriver \/ GetTomatometerScore \/ ImdbFetch

SpecSession == SessionInit /\ [][SessionNext]_vars

(***************************************************************************)
(* Title scoring: _calculate_match_score of the Rotten Tomatoes scraper,   *)
(* normalize_title and the fuzzy score of the IMDb scraper.  A title is a  *)
(* sequence of characters; a score is kept as the exact ratio num / den.   *)
(***************************************************************************)
UpperCase == <<"A", "B", "C", "D", "E", "F", "G", "H", "I", "J", "K", "L", "M",
               "N", "O", "P", "Q", "R", "S", "T", "U", "V", "W", "X", "Y", "Z">>
LowerCase == <<"a", "b", "c", "d", "e", "f", "g", "h", "i", "j", "k", "l", "m",
               "n", "o", "p", "q", "r", "s", "t", "u", "v", "w", "x", "y", "z">>
DigitChars == <<"0", "1", "2", "3", "4", "5", "6", "7", "8", "9">>

\* the characters of a title, in the order of their code points
CodeOrder == <<" ", "&", "(", ")", "-", ":">> \o DigitChars \o UpperCase \o LowerCase
Code(c) == CHOOSE i \in 1..Len(CodeOrder) : CodeOrder[i] = c

\* the characters that are no white space
NonSpace == Range(CodeOrder) \ {" "}

\* str.lower()
LowerChar(c) ==
    IF c \in Range(UpperCase)
    THEN LowerCase[CHOOSE i \in 1..Len(UpperCase) : UpperCase[i] = c]
    ELSE c
Lower(s) == [i \in 1..Len(s) |-> LowerChar(s[i])]

\* the elements of s that are in set, in their order
RECURSIVE Keep(_, _)
Keep(s, set) ==
    IF s = <<>> THEN <<>>
    ELSE (IF Head(s) \in set THEN <<Head(s)>> ELSE <<>>) \o Keep(Tail(s), set)

\* str.split(): the words between the runs of white space
RECURSIVE Split(_)
Split(s) ==
    LET t == Drop(s, LeadLen(s, {" "}))
        n == LeadLen(t, NonSpace)
    IN  IF t = <<>> THEN <<>> ELSE <<SubSeq(t, 1, n)>> \o Split(Drop(t, n))

\* ' '.join(words)
RECURSIVE Join(_)
Join(words) ==
    IF words = <<>> THEN <<>>
    ELSE IF Len(words) = 1 THEN words[1]
    ELSE words[1] \o <<" ">> \o Join(Tail(words))

\* "w in s" for two strings
Contains(s, w) ==
    \E i \in 0..(Len(s) - Len(w)) : SubSeq(s, i + 1, i + Len(w)) = w

Largest(S) == CHOOSE x \in S : \A y \in S : y <= x
Smallest(S) == CHOOSE x \in S : \A y \in S : x <= y

\* a score num / den
Ratio(num, den) == [num |-> num, den |-> den]
AtLeast(x, y) == x.num * y.den >= y.num * x.den
SameScore(x, y) == x.num * y.den = y.num * x.den
\* max(x, y)
Best(x, y) == IF AtLeast(x, y) THEN x ELSE y

\* no score computed
NoScore == Ratio(0, 1)

\* the articles the local function normalize removes, in its order
Articles == << <<"t", "h", "e", " ">>, <<"a", " ">>, <<"a", "n", " ">> >>

RECURSIVE RemoveArticles(_, _)
RemoveArticles(s, articles) ==
    IF articles = <<>> THEN s
    ELSE RemoveArticles(IF StartsWith(s, Head(articles)) THEN Drop(s, Len(Head(articles))) ELSE s,
                        Tail(articles))

\* normalize(title) of _calculate_match_score: lower case, the leading
\* articles removed, only a-z, 0-9 and white space kept, the spaces normalised
Normalize(title) ==
    Join(Split(Keep(RemoveArticles(Lower(title), Articles),
                    Range(LowerCase) \cup Range(DigitChars) \cup {" "})))

\* the length of the common run of a from i and b from j, up to ahi and bhi
RECURSIVE RunLen(_, _, _, _, _, _)
RunLen(a, b, i, j, ahi, bhi) ==
    IF i > ahi \/ j > bhi THEN 0
    ELSE IF a[i] # b[j] THEN 0
    ELSE 1 + RunLen(a, b, i + 1, j + 1, ahi, bhi)

\* SequenceMatcher.find_longest_match on a[alo..ahi] and b[blo..bhi] (no junk):
\* the longest common block, the one that starts earliest in a and, of those,
\* earliest in b
FindLongestMatch(a, b, alo, ahi, blo, bhi) ==
    LET size == [i \in alo..ahi, j \in blo..bhi |-> RunLen(a, b, i, j, ahi, bhi)]
        k == Largest({ size[i, j] : i \in alo..ahi, j \in blo..bhi })
        i0 == Smallest({ i \in alo..ahi : \E j \in blo..bhi : size[i, j] = k })
        j0 == Smallest({ j \in blo..bhi : size[i0, j] = k })
    IN  [i |-> i0, j |-> j0, size |-> k]

\* SequenceMatcher.get_matching_blocks: the total size of the matching blocks,
\* the longest block first, then the blocks to its left and to its right
RECURSIVE Matches(_, _, _, _, _, _)
Matches(a, b, alo, ahi, blo, bhi) ==
    IF alo > ahi \/ blo > bhi THEN 0
    ELSE LET m == FindLongestMatch(a, b, alo, ahi, blo, bhi)
         IN  IF m.size = 0 THEN 0
             ELSE m.size
                  + Matches(a, b, alo, m.i - 1, blo, m.j - 1)
                  + Matches(a, b, m.i + m.size, ahi, m.j + m.size, bhi)

\* SequenceMatcher(None, a, b).ratio(): 2.0 * matches / (len(a) + len(b))
SequenceRatio(a, b) ==
    IF Len(a) + Len(b) = 0 THEN Ratio(1, 1)
    ELSE Ratio(2 * Matches(a, b, 1, Len(a), 1, Len(b)), Len(a) + Len(b))

\* strategy 4: len(search_words & result_words) / max(len(...), len(...))
WordOverlap(a, b) ==
    LET search_words == Range(Split(a))
        result_words == Range(Split(b))
    IN  IF search_words # {} /\ result_words # {}
        THEN Ratio(Cardinality(search_words \cap result_words),
                   Largest({Cardinality(search_words), Cardinality(result_words)}))
        ELSE Ratio(0, 1)

\* strategy 2: 0.9 * min(len) / max(len)
ContainmentScore(a, b) ==
    Ratio(9 * Smallest({Len(a), Len(b)}), 10 * Largest({Len(a), Len(b)}))

\* _calculate_match_score(search_title, result_title)
CalculateMatchScore(title, result_title_) ==
    LET search_norm == Normalize(title)
        result_norm == Normalize(result_title_)
    IN  IF search_norm = result_norm THEN Ratio(1, 1)
        ELSE IF Contains(result_norm, search_norm) \/ Contains(search_norm, result_norm)
        THEN ContainmentScore(search_norm, result_norm)
        ELSE Best(SequenceRatio(search_norm, result_norm),
                  WordOverlap(search_norm, result_norm))

\* the numerals 1 to 12 of roman_map
Romans == << <<"I">>, <<"I", "I">>, <<"I", "I", "I">>, <<"I", "V">>, <<"V">>, <<"V", "I">>,
             <<"V", "I", "I">>, <<"V", "I", "I", "I">>, <<"I", "X">>, <<"X">>, <<"X", "I">>,
             <<"X", "I", "I">> >>
Arabics == << <<"1">>, <<"2">>, <<"3">>, <<"4">>, <<"5">>, <<"6">>, <<"7">>, <<"8">>, <<"9">>,
              <<"1", "0">>, <<"1", "1">>, <<"1", "2">> >>

\* sorted(roman_map.items(), key=lambda x: -len(x[0])): the longest first, the
\* order of the table among those of one length
RomanOrder == <<8, 3, 7, 12, 2, 4, 6, 9, 11, 1, 5, 10>>

\* the length of what (\s*[:–-]|\s*$) matches at the start of s, -1 if nothing
BoundaryLen(s) ==
    LET k == LeadLen(s, {" "})
    IN  IF k < Len(s) /\ s[k + 1] \in {":", "-"} THEN k + 1
        ELSE IF k = Len(s) THEN k
        ELSE -1

\* re.sub(rf'{roman}(\s*[:–-]|\s*$)', rf'{number}\1', s, flags=re.IGNORECASE)
RECURSIVE SubRoman(_, _, _)
SubRoman(s, roman, number) ==
    IF s = <<>> THEN <<>>
    ELSE LET rest == Drop(s, Len(roman))
             g == BoundaryLen(rest)
         IN  IF Len(s) >= Len(roman) /\ Lower(SubSeq(s, 1, Len(roman))) = Lower(roman) /\ g >= 0
             THEN number \o SubSeq(rest, 1, g) \o SubRoman(Drop(rest, g), roman, number)
             ELSE <<Head(s)>> \o SubRoman(Tail(s), roman, number)

RECURSIVE SubRomans(_, _)
SubRomans(s, order) ==
    IF order = <<>> THEN s
    ELSE SubRomans(SubRoman(s, <<" ">> \o Romans[Head(order)], <<" ">> \o Arabics[Head(order)]),
                   Tail(order))

\* IMDbScraper.normalize_title(title)
NormalizeTitle(title) == SubRomans(title, RomanOrder)

\* re.sub(r'\s*\(\d{4}\).*$', '', title): cut at the first "(dddd)", with the
\* white space before it
RECURSIVE StripYear(_)
StripYear(s) ==
    IF s = <<>> THEN <<>>
    ELSE LET r == Drop(s, LeadLen(s, {" "}))
         IN  IF /\ Len(r) >= 6
                /\ r[1] = "("
                /\ \A i \in 2..5 : r[i] \in Range(DigitChars)
                /\ r[6] = ")"
             THEN <<>>
             ELSE <<Head(s)>> \o StripYear(Tail(s))

\* u < v for two strings
RECURSIVE LexLess(_, _)
LexLess(u, v) ==
    IF v = <<>> THEN FALSE
    ELSE IF u = <<>> THEN TRUE
    ELSE IF Head(u) # Head(v) THEN Code(Head(u)) < Code(Head(v))
    ELSE LexLess(Tail(u), Tail(v))

\* sorted(words)
RECURSIVE Insert(_, _)
Insert(words, w) ==
    IF words = <<>> THEN <<w>>
    ELSE IF LexLess(w, Head(words)) THEN <<w>> \o words
    ELSE <<Head(words)>> \o Insert(Tail(words), w)

RECURSIVE Sorted(_)
Sorted(words) ==
    IF words = <<>> THEN <<>> ELSE Insert(Sorted(Tail(words)), Head(words))

\* fuzzywuzzy's processing of a string before token_sort_ratio: what is no
\* letter and no digit becomes a space, lower case, the tokens sorted and
\* joined by one space
ProcessAndSort(s) ==
    Join(Sorted(Split([i \in 1..Len(s) |->
        IF LowerChar(s[i]) \in Range(LowerCase) \cup Range(DigitChars)
        THEN LowerChar(s[i]) ELSE " "])))

\* int(round(num / den)), ties to the even number
RoundHalfEven(num, den) ==
    LET q == num \div den
        r == num % den
    IN  IF 2 * r > den THEN q + 1
        ELSE IF 2 * r < den THEN q
        ELSE IF q % 2 = 0 THEN q ELSE q + 1

\* fuzz.token_sort_ratio(s1, s2): 0 for an empty string, else the percentage
\* int(round(100 * SequenceMatcher(None, t1, t2).ratio())) of the sorted tokens
TokenSortRatio(s1, s2) ==
    LET t1 == ProcessAndSort(s1)
        t2 == ProcessAndSort(s2)
        m == SequenceRatio(t1, t2)
    IN  IF t1 = <<>> \/ t2 = <<>> THEN 0
        ELSE RoundHalfEven(100 * m.num, m.den)

\* the score search_movie_fuzzy gives a result title for a search title, in
\* percent
FuzzyScore(title, result_title_) ==
    Ratio(TokenSortRatio(Lower(NormalizeTitle(title)),
                         Lower(NormalizeTitle(StripYear(result_title_)))), 100)

\* the titles of the runs: a base title, the base with a numeral, roman or
\* arabic, and some more
BaseTitle == <<"R", "o", "c", "k", "y">>

Numbered(i, arabic) == BaseTitle \o <<" ">> \o (IF arabic THEN Arabics[i] ELSE Romans[i])

MatchTitles ==
    {BaseTitle}
    \cup { Numbered(i, arabic) : i \in 1..MaxNumeral, arabic \in BOOLEAN }
    \cup { <<"T", "h", "e", " ">> \o BaseTitle,
           <<"I", "I", " ">> \o BaseTitle,
           Numbered(2, FALSE) \o <<":", " ", "2">>,
           Numbered(2, TRUE) \o <<" ", "(", "1", "9", "7", "9", ")">> }

\* a search title and a result title, not scored yet
ScoreInit ==
    /\ hash_seed = 0
    /\ MergeIdle
    /\ RunsIdle
    /\ RatingIdle
    /\ ResolveIdle
    /\ ParseIdle
    /\ ScrapeIdle
    /\ SessionIdle
    /\ AfterScoreIdle
    /\ search_title \in MatchTitles
    /\ result_title \in MatchTitles
    /\ scorer = "none"
    /\ title_score = NoScore

\* "match_score = self._calculate_match_score(title, result_title)" of
\* _search_via_selenium
CallCalculateMatchScore ==
    /\ scorer = "none"
    /\ scorer' = "rt"
    /\ title_score' = CalculateMatchScore(search_title, result_title)
    /\ UNCHANGED <<mergeVars, runVars, ratingVars, resolveVars, parseVars, scrapeVars,
                   sessionVars, afterScoreVars, search_title, result_title>>

\* the score of one result in search_movie_fuzzy
CallFuzzyScore ==
    /\ scorer = "none"
    /\ scorer' = "imdb"
    /\ title_score' = FuzzyScore(search_title, result_title)
    /\ UNCHANGED <<mergeVars, runVars, ratingVars, resolveVars, parseVars, scrapeVars,
                   sessionVars, afterScoreVars, search_title, result_title>>

ScoreNext == CallCalculateMatchScore \/ CallFuzzyScore

SpecScore == ScoreInit /\ [][ScoreNext]_vars

(***************************************************************************)
(* The progressive loading of _scrape_endpoint: once the page shows review *)
(* cards, _scroll_to_load_reviews scrolls to the bottom until enough cards *)
(* are there or the page stops changing height, and the cards are looked   *)
(* up afterwards.  The page is the site's: after a scroll its height and   *)
(* the number of its cards are whatever the site makes them.               *)
(***************************************************************************)
\* "max_scrolls = 5"
max_scrolls == 5

Heights == 0..MaxHeight

CardCounts == 0..MaxCards

\* the loop goes on to another iteration when neither "break" is taken
KeepScrolling_IgnoreHeight(new_height, current_count, height, target) ==
    current_count < target

KeepScrolling(new_height, current_count, height, target) ==
    /\ ~(current_count >= target)
    /\ ~(new_height = height)

ScrollInit ==
    /\ hash_seed = 0
    /\ MergeIdle
    /\ RunsIdle
    /\ RatingIdle
    /\ ResolveIdle
    /\ ParseIdle
    /\ ScrapeIdle
    /\ SessionIdle
    /\ ScoreIdle
    /\ AfterScrollIdle
    /\ target_count \in Limits
    /\ page_height \in Heights
    /\ page_count \in CardCounts
    /\ last_height = NoValue
    /\ scroll_attempts = 0
    /\ pc_scroll = "idle"
    /\ scrolls = 0
    /\ last_scroll = <<>>
    /\ review_cards = NoValue

\* "self._scroll_to_load_reviews(max_reviews)" up to the loop
ScrollToLoadReviews ==
    /\ pc_scroll = "idle"
    /\ last_height' = page_height
    /\ scroll_attempts' = 0
    /\ pc_scroll' = "loop"
    /\ UNCHANGED <<beforeScrollVars, afterScrollVars, target_count, page_height, page_count,
                   scrolls, last_scroll, review_cards>>

\* one iteration of the loop: the scroll, the wait, and the two tests
ScrollOnce ==
    /\ pc_scroll = "loop"
    /\ scroll_attempts < max_scrolls
    /\ \E new_height \in Heights, current_count \in CardCounts :
        /\ page_height' = new_height
        /\ page_count' = current_count
        /\ scrolls' = scrolls + 1
        /\ last_scroll' = << [ last_height |-> last_height,
                               new_height |-> new_height,
                               current_count |-> current_count ] >>
        /\ IF KeepScrolling(new_height, current_count, last_height, target_count)
           THEN /\ last_height' = new_height
                /\ scroll_attempts' = scroll_attempts + 1
                /\ pc_scroll' = "loop"
           ELSE /\ pc_scroll' = "ended"
                /\ UNCHANGED <<last_height, scroll_attempts>>
    /\ UNCHANGED <<beforeScrollVars, afterScrollVars, target_count, review_cards>>

\* "while scroll_attempts < max_scrolls" is false
ScrollLimit ==
    /\ pc_scroll = "loop"
    /\ ~(scroll_attempts < max_scrolls)
    /\ pc_scroll' = "ended"
    /\ UNCHANGED <<beforeScrollVars, afterScrollVars, target_count, page_height, page_count,
                   last_height, scroll_attempts, scrolls, last_scroll, review_cards>>

\* a call of the driver in the loop raises: _scrape_endpoint catches it and
\* returns [] without looking up the cards
ScrollRaises ==
    /\ pc_scroll = "loop"
    /\ scroll_attempts < max_scrolls
    /\ pc_scroll' = "raised"
    /\ UNCHANGED <<beforeScrollVars, afterScrollVars, target_count, page_height, page_count,
                   last_height, scroll_attempts, scrolls, last_scroll, review_cards>>

\* "review_cards = driver.find_elements(By.TAG_NAME, "review-card")"
FindReviewCards ==
    /\ pc_scroll = "ended"
    /\ review_cards' = page_count
    /\ pc_scroll' = "read"
    /\ UNCHANGED <<beforeScrollVars, afterScrollVars, target_count, page_height, page_count,
                   last_height, scroll_attempts, scrolls, last_scroll>>

ScrollNext ==
    \/ ScrollToLoadReviews
    \/ ScrollOnce
    \/ ScrollLimit
    \/ ScrollRaises
    \/ FindReviewCards

SpecScroll == ScrollInit /\ [][ScrollNext]_vars

\* the loop is sequential code: its next step is always taken
SpecScrollFair ==
    /\ SpecScroll
    /\ WF_vars(ScrollOnce \/ ScrollLimit \/ ScrollRaises)

(***************************************************************************)
(* _parse_relative_timestamp on the short tokens the site shows for recent *)
(* reviews: a number and a unit.  A datetime is a number of seconds.       *)
(***************************************************************************)
\* the units as the site writes them, and the seconds each stands for
TokenUnits == { <<"s">>, <<"m">>, <<"h">>, <<"d">>, <<"w">>, <<"m", "o">>, <<"M">>, <<"y">> }

Day == 86400

TokenSeconds(token) ==
    CASE token = <<"s">> -> 1
      [] token = <<"m">> -> 60
      [] token = <<"h">> -> 3600
      [] token = <<"d">> -> Day
      [] token = <<"w">> -> 7 * Day
      [] token = <<"m", "o">> -> 30 * Day
      [] token = <<"M">> -> 30 * Day
      [] token = <<"y">> -> 365 * Day

\* str(n)
RECURSIVE Decimal(_)
Decimal(n) ==
    IF n < 10 THEN <<DigitChars[n + 1]>>
    ELSE Decimal(n \div 10) \o <<DigitChars[(n % 10) + 1]>>

\* int(digits)
RECURSIVE ToInt(_)
ToInt(digits) ==
    IF digits = <<>> THEN 0
    ELSE 10 * ToInt(SubSeq(digits, 1, Len(digits) - 1))
         + (CHOOSE d \in 0..9 : DigitChars[d + 1] = digits[Len(digits)])

\* the tokens a card can show, with white space around them or not
Paddings == { <<>>, <<" ">> }

Amounts == 0..MaxAmount

RelativeToken(n, token, pad) == pad \o Decimal(n) \o token \o pad

\* what datetime.now() can read
Clocks == { 1700000000, 1700000000 + Day - 1 }

\* the timedelta of a unit of "(\d+)([smhdwMy])", in seconds
UnitSeconds(u) ==
    CASE u = "s" -> 1
      [] u = "m" -> 60
      [] u = "h" -> 3600
      [] u = "d" -> Day
      [] u = "w" -> 7 * Day
      [] u = "M" -> 30 * Day
      [] u = "y" -> 365 * Day

\* _parse_relative_timestamp(date_str) when datetime.now() reads current: no
\* token is a "Month Day" date, so strptime raises ValueError and the relative
\* format is tried; re.match anchors at the start only
ParseRelativeTimestamp(str, current) ==
    LET s == Strip(str)
        n == LeadLen(s, Digits)
    IN  IF n = 0 \/ n = Len(s) THEN NoValue
        ELSE IF s[n + 1] \notin {"s", "m", "h", "d", "w", "M", "y"} THEN NoValue
        ELSE current - ToInt(SubSeq(s, 1, n)) * UnitSeconds(s[n + 1])

StampInit ==
    /\ hash_seed = 0
    /\ MergeIdle
    /\ RunsIdle
    /\ RatingIdle
    /\ ResolveIdle
    /\ ParseIdle
    /\ ScrapeIdle
    /\ SessionIdle
    /\ ScoreIdle
    /\ ScrollIdle
    /\ AfterStampIdle
    /\ token_amount \in Amounts
    /\ token_unit \in TokenUnits
    /\ \E pad \in Paddings : date_str = RelativeToken(token_amount, token_unit, pad)
    /\ clock \in Clocks
    /\ timestamp = <<>>

\* "review_date = self._parse_relative_timestamp(date_text)"
CallParseRelativeTimestamp ==
    /\ timestamp = <<>>
    /\ timestamp' = <<ParseRelativeTimestamp(date_str, clock)>>
    /\ UNCHANGED <<beforeScrollVars, scrollVars, afterStampVars,
                   date_str, token_amount, token_unit, clock>>

StampNext == CallParseRelativeTimestamp

SpecStamp == StampInit /\ [][StampNext]_vars

(***************************************************************************)
(* The engagement counters of a review: the voting section of the new IMDb *)
(* layout, the "N out of M" line of the old one, and the constant 0 of the *)
(* Rotten Tomatoes parser.  A label is absent, <<>>, or holds a text.      *)
(***************************************************************************)
VoteCounts == 0..MaxVotes

\* the texts a count label can hold: a number, a number with a sign, a number
\* that is abbreviated
LabelTexts ==
    { Decimal(n) : n \in VoteCounts }
        \cup { <<"-">> \o Decimal(n) : n \in VoteCounts }
        \cup { <<"1", ".", "2", "K">> }

Labels == { <<>> } \cup { <<text>> : text \in LabelTexts }

\* the line of the old layout: absent, without the pattern (no numbers), or
\* "<helpful> out of <total> found this helpful"
OldLines ==
    { <<>>, <<[helpful |-> <<>>, total |-> <<>>]>> }
        \cup { <<[helpful |-> Decimal(h), total |-> Decimal(t)]>> : h, t \in VoteCounts }

Containers ==
    { [section |-> FALSE, up |-> <<>>, down |-> <<>>, old |-> o] : o \in OldLines }
        \cup { [section |-> TRUE, up |-> u, down |-> d, old |-> o] :
                   u \in Labels, d \in Labels, o \in OldLines }

\* int(text): <<v>>, or <<>> for a ValueError
IntOf(text) ==
    LET digits == IF text # <<>> /\ text[1] \in {"-", "+"} THEN Drop(text, 1) ELSE text
    IN  IF digits = <<>> \/ LeadLen(digits, Digits) # Len(digits) THEN <<>>
        ELSE IF text[1] = "-" THEN << 0 - ToInt(digits) >>
        ELSE << ToInt(digits) >>

\* "try: count = int(label.get_text(strip=True)) except: pass" on a label
LabelCount(label, default) ==
    IF label = <<>> \/ IntOf(label[1]) = <<>> THEN default ELSE IntOf(label[1])[1]

\* a line that matches r'(\d+)\s+out of\s+(\d+)'
Matched(line) == \E found \in Range(line) : found.helpful # <<>> /\ found.total # <<>>

\* the counters of IMDbScraper._parse_review
ImdbCounters(c) ==
    LET up == IF c.section THEN LabelCount(c.up, 0) ELSE 0
        down == IF c.section THEN LabelCount(c.down, 0) ELSE 0
    IN  IF up = 0 /\ Matched(c.old)
        THEN [ helpful_count |-> ToInt(c.old[1].helpful),
               not_helpful_count |-> ToInt(c.old[1].total) - ToInt(c.old[1].helpful) ]
        ELSE [ helpful_count |-> up, not_helpful_count |-> down ]

\* the counters of _parse_review_card_selenium
RtCounters(c) == [ helpful_count |-> 0, not_helpful_count |-> 0 ]

CountersInit ==
    /\ hash_seed = 0
    /\ MergeIdle
    /\ RunsIdle
    /\ RatingIdle
    /\ ResolveIdle
    /\ ParseIdle
    /\ ScrapeIdle
    /\ SessionIdle
    /\ ScoreIdle
    /\ ScrollIdle
    /\ StampIdle
    /\ LoadIdle
    /\ voting \in Containers
    /\ counted_by = "none"
    /\ counters = <<>>

ImdbParseCounters ==
    /\ counters = <<>>
    /\ counted_by' = "imdb"
    /\ counters' = <<ImdbCounters(voting)>>
    /\ UNCHANGED <<beforeScrollVars, scrollVars, stampVars, loadVars, voting>>

RtParseCounters ==
    /\ counters = <<>>
    /\ counted_by' = "rt"
    /\ counters' = <<RtCounters(voting)>>
    /\ UNCHANGED <<beforeScrollVars, scrollVars, stampVars, loadVars, voting>>

CountersNext == ImdbParseCounters \/ RtParseCounters

SpecCounters == CountersInit /\ [][CountersNext]_vars

(***************************************************************************)
(* TMDBDataLoader.load_into_database with update_existing false, run after *)
(* run over the same file.  The session queries with autoflush, so a query *)
(* sees the rows the run has added and not yet committed; a run that is    *)
(* cut short loses them.  A Movie is kept as its <<title, release_year>>.  *)
(***************************************************************************)
\* "if idx % 100 == 0: db.commit()"
CommitEvery == 100

\* the rows of a file: parse_movie gives a title and a year (NoYear for None),
\* or None for a row without a title, <<>>
CsvRows ==
    { <<>> } \cup { <<[title |-> t, release_year |-> y]>> : t \in {"Heat", "Solaris"},
                                                           y \in {NoYear, 1972} }

CsvFiles == UNION { [1..n -> CsvRows] : n \in 0..MaxRows }

\* "existing = db.query(Movie).filter(...).first()" is not None
Existing_CommittedOnly(movie_data, committed, added) ==
    \E m \in Range(committed) : m = <<movie_data.title, movie_data.release_year>>

Existing(movie_data, committed, added) ==
    \E m \in Range(committed) \cup Range(added) :
        m = <<movie_data.title, movie_data.release_year>>

LoadInit ==
    /\ hash_seed = 0
    /\ MergeIdle
    /\ RunsIdle
    /\ RatingIdle
    /\ ResolveIdle
    /\ ParseIdle
    /\ ScrapeIdle
    /\ SessionIdle
    /\ ScoreIdle
    /\ ScrollIdle
    /\ StampIdle
    /\ CountersIdle
    /\ csv_rows \in CsvFiles
    /\ movies = <<>>
    /\ session_new = <<>>
    /\ row_idx = 0
    /\ pc_load = "idle"
    /\ load_runs = 0
    /\ cut_short = 0
    /\ loaded_once = <<>>

\* a call of load_into_database(db) starts
StartLoad ==
    /\ pc_load = "idle"
    /\ load_runs < MaxLoads
    /\ load_runs' = load_runs + 1
    /\ row_idx' = 0
    /\ pc_load' = "rows"
    /\ UNCHANGED <<beforeScrollVars, scrollVars, stampVars, counterVars,
                   csv_rows, movies, session_new, cut_short, loaded_once>>

\* one iteration of "for idx, row in self.df.iterrows()"
LoadRow ==
    /\ pc_load = "rows"
    /\ row_idx < Len(csv_rows)
    /\ LET row == csv_rows[row_idx + 1]
           skipped == row = <<>> \/ Existing(row[1], movies, session_new)
           added == IF skipped THEN session_new
                    ELSE Append(session_new, <<row[1].title, row[1].release_year>>)
       IN  IF ~skipped /\ row_idx % CommitEvery = 0
           THEN /\ movies' = movies \o added
                /\ session_new' = <<>>
           ELSE /\ session_new' = added
                /\ UNCHANGED movies
    /\ row_idx' = row_idx + 1
    /\ UNCHANGED <<beforeScrollVars, scrollVars, stampVars, counterVars,
                   csv_rows, pc_load, load_runs, cut_short, loaded_once>>

\* the loop is over: "# Final commit", the log row, the return
FinishLoad ==
    /\ pc_load = "rows"
    /\ row_idx = Len(csv_rows)
    /\ movies' = movies \o session_new
    /\ session_new' = <<>>
    /\ pc_load' = "idle"
    /\ loaded_once' = IF loaded_once = <<>> THEN << movies \o session_new >> ELSE loaded_once
    /\ UNCHANGED <<beforeScrollVars, scrollVars, stampVars, counterVars,
                   csv_rows, row_idx, load_runs, cut_short>>

\* the run is cut short (the process dies, or the caller's "finally:
\* db.close()" runs on an exception): what was not committed is rolled back
CutShort ==
    /\ pc_load = "rows"
    /\ session_new' = <<>>
    /\ pc_load' = "idle"
    /\ cut_short' = cut_short + 1
    /\ UNCHANGED <<beforeScrollVars, scrollVars, stampVars, counterVars,
                   csv_rows, movies, row_idx, load_runs, loaded_once>>

LoadNext == StartLoad \/ LoadRow \/ FinishLoad \/ CutShort

SpecLoad == LoadInit /\ [][LoadNext]_vars





(***************************************************************************)
(* Properties of the dedup merge                                           *)
(***************************************************************************)
\* the categories under which a text occurs in the pooled input
CategoriesOf(text) == { r.review_type : r \in { x \in Range(pooled) : x.text = text } }

\* the returned reviews that carry a text
ReturnedWith(text) == { i \in 1..Len(all_reviews) : all_reviews[i].text = text }

\* s with its elements at i and i+1 exchanged
SwapAt(s, i) ==
    [ k \in 1..Len(s) |-> IF k = i THEN s[i + 1] ELSE IF k = i + 1 THEN s[i] ELSE s[k] ]

\* the set of reviews a merge of the list `reviews` from the empty dict retains
Retained(reviews) == Range(ExtractReviews(MergeBatch(<<>>, reviews, hash_seed)))

\* C1: when a text occurs in the pooled input under exactly the categories
\* audience (priority 1) and critic (priority 3), the returned list holds
\* exactly one review with that text and it is the critic one, whichever of
\* the two was processed first.
C1_CriticBeatsAudience ==
    pc_sr = "done" =>
        \A t \in Texts :
            CategoriesOf(t) = {"audience", "critic"} =>
                /\ Cardinality(ReturnedWith(t)) = 1
                /\ \A i \in ReturnedWith(t) : all_reviews[i].review_type = "critic"

\* C1 witness: the audience copy of a text was merged first, the critic copy
\* after it, and the call has returned.
C1_Witness ==
    /\ pc_sr = "done"
    /\ \E i, j \in 1..Len(pooled) :
         /\ i < j
         /\ pooled[i].text = pooled[j].text
         /\ pooled[i].review_type = "audience"
         /\ pooled[j].review_type = "critic"
         /\ CategoriesOf(pooled[i].text) = {"audience", "critic"}

\* C2: idempotence. Merging the processed batch once more into the dict the
\* call has built leaves the set of retained reviews as it is.
C2_MergeIdempotent ==
    pc_sr = "done" =>
        Range(ExtractReviews(MergeBatch(seen_texts, pooled, hash_seed))) = Range(all_reviews)

\* C2 witness: a returned call whose batch held duplicates of one text, of
\* equal and of different priority.
C2_Witness ==
    /\ pc_sr = "done"
    /\ Len(pooled) = MaxPooled
    /\ Len(all_reviews) = 1
    /\ Cardinality({ r.review_type : r \in Range(pooled) }) = 2

\* C3 as stated: the retained records are the same for every order of the
\* batches and of the reviews inside them (every exchange of two neighbours
\* of the pooled input; the exchanges generate every order).
C3_AnyOrderSameRecords ==
    pc_sr = "done" =>
        \A i \in 1..(Len(pooled) - 1) : Retained(SwapAt(pooled, i)) = Range(all_reviews)

\* C3 amended: the retained records are the same for every order of the
\* batches of different endpoints in which the reviews of one endpoint keep
\* their relative order (every exchange of two neighbours that come from
\* different endpoints; these exchanges generate exactly those orders).
C3_BatchOrderSameRecords ==
    pc_sr = "done" =>
        \A i \in 1..(Len(pooled) - 1) :
            pooled[i].review_type # pooled[i + 1].review_type =>
                Retained(SwapAt(pooled, i)) = Range(all_reviews)

\* C3 witness: two neighbours of different endpoints carry the same text, so
\* their exchange changes which of them is merged first.
C3_Witness ==
    /\ pc_sr = "done"
    /\ \E i \in 1..(Len(pooled) - 1) :
         /\ pooled[i].text = pooled[i + 1].text
         /\ pooled[i].review_type # pooled[i + 1].review_type
         /\ Priority(pooled[i].review_type) < Priority(pooled[i + 1].review_type)

(***************************************************************************)
(* Properties of the fingerprint                                           *)
(***************************************************************************)
\* C4: the fingerprint and the source_id are stable across process runs: any
\* two parsed reviews with the same text from the same endpoint, whichever
\* runs parsed them, carry the same fingerprint and the same source_id.
C4_StableFingerprint ==
    \A a, b \in stored :
        (a.endpoint = b.endpoint /\ a.review.text = b.review.text) =>
            /\ a.fingerprint = b.fingerprint
            /\ a.review.source_id = b.review.source_id

(***************************************************************************)
(* Properties of the rating reconciliation                                 *)
(***************************************************************************)
MinOf(a, b) == IF a <= b THEN a ELSE b
MaxOf(a, b) == IF a >= b THEN a ELSE b

\* v is a whole number of hundredths and no hundredth is nearer to num / den
NearestHundredth(v, num, den) ==
    /\ v % 10 = 0
    /\ 2 * AbsDiff(v * den, num) <= 10 * den

\* the weight of a rating: its vote count, or 1 when that is absent or zero
ClaimedWeight(votes) == IF votes = NoValue \/ votes = 0 THEN 1 ELSE votes

\* the sum of value * weight over the listed observations, and of the weights
WeightedSum(obs) ==
    obs[1].rating * ClaimedWeight(obs[1].votes) + obs[2].rating * ClaimedWeight(obs[2].votes)
WeightTotal(obs) == ClaimedWeight(obs[1].votes) + ClaimedWeight(obs[2].votes)

\* the scraped rating exists and was observed less than 7 days before now
FreshLive ==
    /\ imdb_rating # NoValue
    /\ scraped_at # NoValue
    /\ now - scraped_at < FreshDays * TicksPerDay

\* the scraped rating exists and was observed 7 days or more before now
StaleLive ==
    /\ imdb_rating # NoValue
    /\ scraped_at # NoValue
    /\ now - scraped_at >= FreshDays * TicksPerDay

\* the observations of the movie: the ratings get_rating_metadata lists as its
\* sources (a column that holds NULL or 0.0 yields no observation)
Observations == Sources(Movie, now)

\* C5 as stated: the returned rating lies within [min, max] of the two ratings
\* when both are there, and equals the single rating when only one is.
C5_WithinMinMax ==
    ret.fn = "get_best_rating" =>
        /\ (tmdb_rating # NoValue /\ imdb_rating # NoValue) =>
               /\ MinOf(tmdb_rating, imdb_rating) <= ret.value
               /\ ret.value <= MaxOf(tmdb_rating, imdb_rating)
        /\ (tmdb_rating # NoValue /\ imdb_rating = NoValue) => ret.value = tmdb_rating
        /\ (tmdb_rating = NoValue /\ imdb_rating # NoValue) => ret.value = imdb_rating

\* C5 amended: the returned rating lies within [min, max] of the two ratings
\* widened to the hundredths that enclose them (the weighted average is
\* rounded to 2 decimals); it lies within [min, max] itself when both ratings
\* have at most 2 decimals; it equals the single rating when only one exists.
C5_WithinRoundedMinMax ==
    ret.fn = "get_best_rating" =>
        /\ (tmdb_rating # NoValue /\ imdb_rating # NoValue) =>
               /\ 10 * (MinOf(tmdb_rating, imdb_rating) \div 10) <= ret.value
               /\ ret.value <= 10 * ((MaxOf(tmdb_rating, imdb_rating) + 9) \div 10)
               /\ (tmdb_rating % 10 = 0 /\ imdb_rating % 10 = 0) =>
                      /\ MinOf(tmdb_rating, imdb_rating) <= ret.value
                      /\ ret.value <= MaxOf(tmdb_rating, imdb_rating)
        /\ (tmdb_rating # NoValue /\ imdb_rating = NoValue) => ret.value = tmdb_rating
        /\ (tmdb_rating = NoValue /\ imdb_rating # NoValue) => ret.value = imdb_rating

\* C5 witness: both ratings contribute and the returned rating lies strictly
\* between them.
C5_Witness ==
    /\ ret.fn = "get_best_rating"
    /\ tmdb_rating # NoValue /\ imdb_rating # NoValue
    /\ MinOf(tmdb_rating, imdb_rating) < ret.value
    /\ ret.value < MaxOf(tmdb_rating, imdb_rating)

\* C6: a scraped rating observed less than 7 days ago is returned as it is;
\* one observed 7 days ago or earlier is not: with a TMDB rating beside it the
\* rounded weighted average is returned.
C6_FreshnessOverride ==
    ret.fn = "get_best_rating" =>
        /\ FreshLive => ret.value = imdb_rating
        /\ (StaleLive /\ Len(Observations) = 2) =>
               NearestHundredth(ret.value, WeightedSum(Observations), WeightTotal(Observations))

\* C6 witness: a scraped rating aged 3 days is returned although a TMDB rating
\* exists and the weighted average differs from it.
C6_Witness ==
    /\ ret.fn = "get_best_rating"
    /\ imdb_rating # NoValue /\ scraped_at # NoValue
    /\ now - scraped_at = 3 * TicksPerDay
    /\ Len(Observations) = 2
    /\ ret.value = imdb_rating
    /\ ~NearestHundredth(imdb_rating, WeightedSum(Observations), WeightTotal(Observations))

\* C7: without a fresh scraped rating and with two observations, the returned
\* rating is the vote-weighted average rounded to 2 decimals, the weight being
\* the vote count, or 1 when that is absent or zero; (7.0, 1000 votes) and
\* (8.0, 500 votes) give 7.33.
C7_WeightedAverage ==
    (ret.fn = "get_best_rating" /\ ~FreshLive /\ Len(Observations) = 2) =>
        /\ NearestHundredth(ret.value, WeightedSum(Observations), WeightTotal(Observations))
        /\ (/\ tmdb_rating = 7000 /\ tmdb_vote_count = 1000
            /\ imdb_rating = 8000 /\ imdb_vote_count = 500) => ret.value = 7330

\* C7 witness: the example, (7.0, 1000 votes) and (8.0, 500 votes) with a
\* scraped rating that is not fresh, has been evaluated.
C7_Witness ==
    /\ ret.fn = "get_best_rating"
    /\ ~FreshLive
    /\ tmdb_rating = 7000 /\ tmdb_vote_count = 1000
    /\ imdb_rating = 8000 /\ imdb_vote_count = 500

\* C8: with two observations, difference is the absolute difference of the
\* two ratings rounded to 2 decimals and note is "Large difference -
\* investigate" exactly when difference > 1.0, "Ratings are similar"
\* otherwise; with fewer than two both keys are omitted.
C8_DifferenceAndNote ==
    ret.fn = "get_rating_metadata" =>
        LET r == ret.value
        IN  /\ Len(r.sources) = 2 =>
                /\ {"difference", "note"} \subseteq DOMAIN r
                /\ NearestHundredth(r.difference,
                                    AbsDiff(r.sources[1].rating, r.sources[2].rating), 1)
                /\ r.note = IF r.difference > 1000
                            THEN "Large difference - investigate"
                            ELSE "Ratings are similar"
            /\ Len(r.sources) < 2 => {"difference", "note"} \cap DOMAIN r = {}

\* C8 witness: two observations whose difference is exactly 1.0, reported as
\* similar.
C8_Witness ==
    /\ ret.fn = "get_rating_metadata"
    /\ Len(ret.value.sources) = 2
    /\ ret.value.difference = 1000
    /\ ret.value.note = "Ratings are similar"

\* C9: two evaluations of get_best_rating on the same ratings, vote counts and
\* timestamp return the same value (the Movie row does not change between the
\* calls of this specification).
C9_Deterministic ==
    (ret.fn = "get_best_rating" /\ first_best # <<>>) => first_best = <<ret.value>>

(***************************************************************************)
(* Properties of the identifier resolution                                 *)
(***************************************************************************)
\* the stage that follows a stage in the cascade of a source; "end" after the
\* last one
NextStage(src, stage, year) ==
    CASE src = "rt" /\ stage = "S0"      -> IF year # NoYear THEN "S1" ELSE "S3"
      [] src = "rt" /\ stage = "S1"      -> "S3"
      [] src = "imdb" /\ stage = "exact" -> "fuzzy"
      [] OTHER                           -> "end"

\* the identifiers a search can return
Identifiers ==
    { i.id : i \in RtItems \cup ImdbItems } \cup { GenerateSlug(t) : t \in Titles }

\* C10: no exception leaves search_movie of either source, and when a stage
\* fails with an exception (network error, HTTP error, wait timeout, driver
\* that does not start) the stage counts as failed and the next stage of the
\* cascade is attempted; search_movie returns an identifier or None.
C10_FailedStageCascades ==
    /\ pc_search # "raised"
    /\ pc_search = "returned" =>
         /\ result \in Identifiers \cup {NoId}
         /\ \A i \in 1..Len(trail) :
              LET next == NextStage(source, trail[i].stage, query_year)
              IN  (trail[i].raised # NoExc /\ next # "end") =>
                      /\ i < Len(trail)
                      /\ trail[i + 1].stage = next

\* the stages of the call so far that yielded an identifier
Succeeded == { i \in 1..Len(trail) : trail[i].value # NoId }

\* the first of them
FirstSucceeded == CHOOSE i \in Succeeded : \A j \in Succeeded : i <= j

\* the place of an attempted stage in the order S0, S1, S2, S3: a search made
\* without a year is S0, a search made with a year is S1, the fuzzy search is
\* S2 and the generated slug is S3
StageRank(entry) ==
    CASE entry.stage = "fuzzy" -> 2
      [] entry.stage = "S3"    -> 3
      [] OTHER                 -> IF entry.year # NoYear THEN 1 ELSE 0

\* the stages were attempted in the order of their ranks
RanksIncrease ==
    \A i, j \in 1..Len(trail) : i < j => StageRank(trail[i]) < StageRank(trail[j])

\* a search with year was made only after a search without year that failed,
\* and only for a query that has a year
WithYearOnlyAfterNoYearFailed ==
    \A i \in 1..Len(trail) :
        StageRank(trail[i]) = 1 =>
            /\ query_year # NoYear
            /\ \E j \in 1..(i - 1) : StageRank(trail[j]) = 0 /\ trail[j].value = NoId

\* no stage was attempted after one that yielded an identifier
NoStageAfterSuccess ==
    \A i \in 1..Len(trail) : trail[i].value # NoId => i = Len(trail)

\* what search_movie returned is what the first succeeding stage yielded,
\* None when no stage succeeded
FirstSuccessReturned ==
    pc_search = "returned" =>
        result = IF Succeeded = {} THEN NoId ELSE trail[FirstSucceeded].value

\* C11 as stated, for both sources: the stages are attempted in the order S0,
\* S1, S2, S3; the search with year is made only if the search without year
\* failed and the query has a year; no stage follows one that yielded a
\* result; the result of the first succeeding stage is returned.
C11_FixedStageOrder ==
    /\ RanksIncrease
    /\ WithYearOnlyAfterNoYearFailed
    /\ NoStageAfterSuccess
    /\ FirstSuccessReturned

\* C11 amended: as stated for Rotten Tomatoes (whose stages are S0, S1, S3);
\* the IMDb scraper makes one exact search, made with the year when the query
\* has one, and the fuzzy search after it; in both sources the order is fixed,
\* no stage follows one that yielded a result and the result of the first
\* succeeding stage is returned.
C11_StageOrderPerSource ==
    /\ RanksIncrease
    /\ source = "rt" => WithYearOnlyAfterNoYearFailed
    /\ source = "imdb" =>
          \A i \in 1..Len(trail) :
              /\ trail[i].stage \in {"exact", "fuzzy"}
              /\ trail[i].year = query_year
              /\ trail[i].stage = "exact" => i = 1
    /\ NoStageAfterSuccess
    /\ FirstSuccessReturned

\* C11 witness: the search without year failed, the search with year yielded
\* a slug, and that slug was returned without a further stage.
C11_Witness ==
    /\ source = "rt"
    /\ pc_search = "returned"
    /\ Len(trail) = 2
    /\ trail[1].stage = "S0" /\ trail[1].value = NoId
    /\ trail[2].stage = "S1" /\ trail[2].value # NoId
    /\ result = trail[2].value

\* the page the latest search of the call loaded shows a single result, a
\* movie of the query's year with the given title score
SingleCandidate(score) ==
    /\ query_year # NoYear
    /\ fetched.fail = "none"
    /\ Len(fetched.results) = 1
    /\ fetched.results[1].kind = "movie"
    /\ fetched.results[1].year = query_year
    /\ fetched.results[1].score = score

\* search_movie has returned after its scoring search ran on the latest page:
\* the fuzzy search of IMDb after an exact search that found nothing, the
\* search with year of Rotten Tomatoes or the generated slug after it
ScoringSearchRan ==
    /\ pc_search = "returned"
    /\ \/ /\ source = "imdb"
          /\ Len(trail) = 2
          /\ trail[1].raised = NoExc /\ trail[1].value = NoId
          /\ FUZZY_AVAILABLE
       \/ /\ source = "rt"
          /\ Len(trail) >= 2
          /\ trail[2].stage = "S1"

\* C12: with nothing found by the exact search and a single movie candidate
\* of matching year among the results, search_movie returns the candidate
\* when its title score is 0.72 and None when its title score is 0.65, the
\* acceptance threshold being 0.7.
C12_ThresholdSeventy ==
    /\ (ScoringSearchRan /\ SingleCandidate(72)) => result = fetched.results[1].id
    /\ (ScoringSearchRan /\ SingleCandidate(65)) => result = NoId

(***************************************************************************)
(* Properties of the extraction                                            *)
(***************************************************************************)
\* the extracted, cleaned body text of the container the parser ran on
CleanedBody ==
    IF extractor = "imdb" THEN ImdbCleanText(container) ELSE RtCleanText(container)

\* C13: in both extractors a container whose cleaned body text has fewer than
\* 20 characters yields no review, one with exactly 20 characters yields a
\* review, and every review has a text of at least 20 characters and a
\* review_length equal to the length of its text.
C13_MinimumLengthTwenty ==
    extractor # "none" =>
        /\ Len(CleanedBody) < 20 => parsed = <<>>
        /\ Len(CleanedBody) = 20 => parsed # <<>>
        /\ parsed # <<>> =>
             /\ Len(parsed[1].text) >= 20
             /\ parsed[1].review_length = Len(parsed[1].text)

\* C14 as stated: the list a scrape_reviews call returns holds at most
\* max_reviews reviews, in both scrapers.
C14_AtMostMaxReviews ==
    /\ pc_isr = "done" => Len(imdb_reviews) <= max_reviews
    /\ pc_sr = "done" => Len(all_reviews) <= max_reviews

\* C14 amended: IMDbScraper.scrape_reviews returns at most max_reviews reviews;
\* in RottenTomatoesSeleniumScraper.scrape_reviews the limit holds for each
\* endpoint, so the call returns at most max_reviews times the number of
\* endpoints it went through.
C14_AtMostMaxReviewsPerEndpoint ==
    /\ pc_isr = "done" => Len(imdb_reviews) <= max_reviews
    /\ \A i \in 1..Len(batch_sizes) : batch_sizes[i] <= max_reviews
    /\ pc_sr = "done" => Len(all_reviews) <= max_reviews * Len(batch_sizes)

\* C14 witness: a Rotten Tomatoes call with limit 1 went through two endpoints
\* whose pages held more cards than the limit, and returned two reviews.
C14_Witness ==
    /\ pc_sr = "done"
    /\ max_reviews = 1
    /\ Len(batch_sizes) = 2
    /\ Len(all_reviews) = 2

\* C15: after RottenTomatoesSeleniumScraper.scrape_movie_reviews has finished,
\* by a return or by an exception, self.driver is None (no browser session
\* remains open).
C15_SessionReleasedOnEveryExit ==
    pc_smr \in {"returned", "raised"} => rt_driver = "None"

\* C16: when an operation needs the driver and the session it finds is broken,
\* _init_driver starts a new one instead of handing the broken one out, and a
\* start that fails is tried again, three times at most, before the failure
\* is raised.
C16_BrokenSessionRestarted ==
    last_use.op # "none" =>
        /\ last_use.launches <= RetryAttempts
        /\ last_use.before = "broken" =>
               last_use.launches >= 1 /\ last_use.after # "broken"
        /\ last_use.raised => last_use.launches = RetryAttempts

\* C17: every outbound call of either scraper (session.get, driver.get) has a
\* wait of the rate-limit interval between it and the outbound call before it
\* (before it, for the first call).
C17_RateLimitBeforeEveryCall ==
    /\ imdb_net.calls > 0 => "rate_limit" \in imdb_net.gap
    /\ rt_net.calls > 0 => "rate_limit" \in rt_net.gap

\* C20: a fetch that meets a transport failure is tried again, with a wait
\* between the attempts, and is declared failed only after 2 to 3 attempts;
\* a fetch never makes more than 3 attempts, and an attempt that succeeds gives
\* the result of the fetch.
C20_TransportFailureRetried ==
    last_fetch.op # "none" =>
        /\ Len(last_fetch.outcomes) <= RetryAttempts
        /\ last_fetch.result = "failed" =>
               /\ Len(last_fetch.outcomes) \in 2..RetryAttempts
               /\ last_fetch.backoffs = Len(last_fetch.outcomes) - 1
        /\ last_fetch.outcomes[Len(last_fetch.outcomes)] => last_fetch.result = "ok"

\* the four signals of a pair of normalised titles, 0 for a signal that does
\* not apply, and the largest of them
ExactSignal(a, b) == IF a = b THEN Ratio(1, 1) ELSE Ratio(0, 1)
ContainmentSignal(a, b) ==
    IF Contains(a, b) \/ Contains(b, a) THEN ContainmentScore(a, b) ELSE Ratio(0, 1)
MaxOfFourSignals(a, b) ==
    Best(Best(ExactSignal(a, b), ContainmentSignal(a, b)),
         Best(SequenceRatio(a, b), WordOverlap(a, b)))

\* C18: for every pair of titles, the score _calculate_match_score returns is
\* the maximum of the four signals: equality, containment
\* 0.9 * len(shorter) / len(longer), the sequence ratio, the token overlap.
C18_MaximumOfFourSignals ==
    scorer = "rt" =>
        SameScore(title_score,
                  MaxOfFourSignals(Normalize(search_title), Normalize(result_title)))

\* the two titles differ only by a trailing numeral, roman in one and arabic
\* in the other
RomanArabicPair ==
    \E i \in 1..MaxNumeral :
        {search_title, result_title} = {Numbered(i, FALSE), Numbered(i, TRUE)}

\* C19: two titles that differ only by a trailing roman numeral against its
\* arabic digits ("Rocky II", "Rocky 2") score at least 0.95, in both scrapers.
C19_RomanNumeralsNormalized ==
    scorer # "none" /\ RomanArabicPair => AtLeast(title_score, Ratio(95, 100))

(***************************************************************************)
(* More properties of the dedup merge                                      *)
(***************************************************************************)
\* the positions in the pooled input of the reviews with fingerprint h
WithFingerprint(h) == { k \in 1..Len(pooled) : Hash(hash_seed, pooled[k].text) = h }

\* the greatest priority among the pooled reviews with fingerprint h
TopPriority(h) == Largest({ Priority(pooled[k].review_type) : k \in WithFingerprint(h) })

\* the first pooled review with fingerprint h that has that priority
FirstOfTopPriority(h) ==
    pooled[Smallest({ k \in WithFingerprint(h) :
                        Priority(pooled[k].review_type) = TopPriority(h) })]

\* C21: the dict holds one entry per fingerprint of the input; its priority is
\* the greatest among the inputs with that fingerprint and its review is the
\* first input of that priority (a later input of equal or lower priority
\* never replaced it).
C21_ReplacedOnlyByStrictlyGreater ==
    /\ \A i, j \in 1..Len(seen_texts) :
           seen_texts[i].hash = seen_texts[j].hash => i = j
    /\ \A k \in 1..Len(pooled) :
           \E i \in 1..Len(seen_texts) : seen_texts[i].hash = Hash(hash_seed, pooled[k].text)
    /\ \A i \in 1..Len(seen_texts) :
           /\ WithFingerprint(seen_texts[i].hash) # {}
           /\ seen_texts[i].priority = TopPriority(seen_texts[i].hash)
           /\ seen_texts[i].review = FirstOfTopPriority(seen_texts[i].hash)

\* C21 witness: one text came three times: twice with the same priority from
\* different authors, and once more with a lower priority.
C21_Witness ==
    /\ Len(pooled) = 3
    /\ Len(seen_texts) = 1
    /\ pooled[1].review_type = pooled[2].review_type
    /\ pooled[1].author # pooled[2].author
    /\ Priority(pooled[3].review_type) < Priority(pooled[1].review_type)

\* the review carries one of the categories of PRIORITIES
KnownCategory(review) ==
    "review_type" \in DOMAIN review /\ review.review_type \in DOMAIN PRIORITIES

ReturnedItems == { item \in MovieItems : item.id = result }

\* C23: when the query has a year and the year of the returned candidate is
\* known, the two differ by 1 at most, in both sources and whatever stage
\* returned the candidate.
C23_YearWithinOne ==
    (pc_search = "returned" /\ query_year # NoYear) =>
        \A item \in ReturnedItems :
            item.year # NoYear => AbsDiff(item.year, query_year) <= 1

\* the latest stage search_movie has run
LastStage == trail[Len(trail)]

\* the place of the first result with that identifier on the page
Position(id) ==
    Smallest({ i \in 1..Len(fetched.results) : fetched.results[i].id = id })

\* C24: when a stage that scores the results returns one, no other result of
\* the same title score has the query year exactly while the returned one is
\* off by one; and of two results of the same title score and the same
\* distance to the query year the returned one is the earlier on the page.
C24_ExactYearThenDocumentOrder ==
    ( /\ pc_search = "returned"
      /\ query_year # NoYear
      /\ trail # <<>>
      /\ LastStage.stage \in {"S0", "S1", "fuzzy"}
      /\ LastStage.value = result
      /\ result # NoId ) =>
        \A chosen \in ReturnedItems :
            \A i \in 1..Len(fetched.results) :
                LET other == fetched.results[i]
                IN  ( /\ other.kind = "movie"
                      /\ other.id # chosen.id
                      /\ other.score = chosen.score
                      /\ other.year # NoYear
                      /\ chosen.year # NoYear ) =>
                        /\ ~(other.year = query_year /\ AbsDiff(chosen.year, query_year) = 1)
                        /\ AbsDiff(other.year, query_year) = AbsDiff(chosen.year, query_year)
                               => Position(chosen.id) < i

(***************************************************************************)
(* Properties of the progressive loading.                                  *)
(***************************************************************************)
\* the latest iteration, if the loop went on to another one after it
ContinuedIteration ==
    { last_scroll[i] : i \in { j \in 1..Len(last_scroll) : pc_scroll = "loop" } }

ScrollBounded ==
    /\ scrolls <= max_scrolls
    /\ pc_scroll = "loop" => review_cards = NoValue
    /\ review_cards # NoValue => pc_scroll = "read"

\* C25 as stated: the loop ends, after at most 5 iterations; it goes on to
\* another iteration only if the number of cards is below the target and the
\* page height grew in the iteration; the cards are looked up only after the
\* loop has ended.
C25_StopsWhenHeightDidNotGrow ==
    /\ [](ScrollBounded /\ \A seen \in ContinuedIteration :
            /\ seen.current_count < target_count
            /\ seen.new_height > seen.last_height)
    /\ (pc_scroll = "loop" ~> pc_scroll # "loop")

\* C25, amended: the loop ends, after at most 5 iterations; it goes on to
\* another iteration only if the number of cards is below the target and the
\* page height differs from the height before the iteration; the cards are
\* looked up only after the loop has ended.
C25_StopsWhenHeightUnchanged ==
    /\ [](ScrollBounded /\ \A seen \in ContinuedIteration :
            /\ seen.current_count < target_count
            /\ seen.new_height # seen.last_height)
    /\ (pc_scroll = "loop" ~> pc_scroll # "loop")

\* the loop ran all its iterations, the page changing height each time, and
\* the cards were looked up after it
C25_Witness ==
    /\ pc_scroll = "read"
    /\ scrolls = max_scrolls
    /\ scroll_attempts = max_scrolls
    /\ review_cards < target_count

(***************************************************************************)
(* More properties of the browser session.                                 *)
(***************************************************************************)
\* C26: RottenTomatoesSeleniumScraper.scrape_movie_reviews never finishes by
\* an exception: whatever fails in the resolution, in an endpoint or while
\* the driver is closed, the call returns a list.
C26_ScrapeMovieReviewsNeverRaises ==
    pc_smr # "raised"

(***************************************************************************)
(* Properties of the relative timestamps.                                  *)
(***************************************************************************)
\* C27: the token N<unit> resolves to now minus N of that unit ("2d" to two
\* days, "3w" to three weeks, "1mo" to one month before now) and never to a
\* time later than now.
C27_RelativeTokenByUnit ==
    \A resolved \in Range(timestamp) :
        /\ resolved = clock - token_amount * TokenSeconds(token_unit)
        /\ resolved <= clock

(***************************************************************************)
(* Properties of the engagement counters.                                  *)
(***************************************************************************)
\* no counter is found in the container
NoCounterFound ==
    /\ voting.up = <<>>
    /\ voting.down = <<>>
    /\ ~Matched(voting.old)

\* C28: whatever the container holds, the review has helpful_count >= 0 and
\* not_helpful_count >= 0, and both are 0 when no counter is found.
C28_CountersNonNegative ==
    \A review \in Range(counters) :
        /\ review.helpful_count >= 0
        /\ review.not_helpful_count >= 0
        /\ NoCounterFound => review.helpful_count = 0 /\ review.not_helpful_count = 0

(***************************************************************************)
(* Properties of the bulk load.                                            *)
(***************************************************************************)
\* the rows of the file that have the key of row i
SameKey(i) ==
    { j \in 1..Len(csv_rows) : csv_rows[j] # <<>> /\ csv_rows[j] = csv_rows[i] }

\* C29: after any sequence of runs over the file, cut short or not, the table
\* holds at most one Movie per (title, release_year), and once a run over the
\* file has finished no later run adds a Movie.
C29_OneMoviePerTitleAndYear ==
    /\ \A i, j \in 1..Len(movies) : movies[i] = movies[j] => i = j
    /\ \A loaded \in Range(loaded_once) : movies = loaded /\ session_new = <<>>

\* a run was cut short after its first commit, a later run finished, and a
\* run after that went over the file again, which repeats a pair
C29_Witness ==
    /\ pc_load = "idle"
    /\ cut_short = 1
    /\ load_runs = 3
    /\ loaded_once # <<>>
    /\ Len(movies) = 2
    /\ \E i \in 1..Len(csv_rows) : Cardinality(SameKey(i)) = 2

(***************************************************************************)
(* More properties of the scraping loops.                                  *)
(***************************************************************************)
\* C30: whatever the server sends, IMDbScraper.scrape_reviews leaves its
\* pagination loop: a call that is in the loop is eventually done.
C30_PaginationLoopEnds ==
    (pc_isr = "loop") ~> (pc_isr = "done")

====
